---- MODULE Spec2Model ----
(***************************************************************************)
(* Model of the angle-style regression tests of LAMMPS                     *)
(* (unittest/force-styles/angle_style.cpp): the driver functions           *)
(* cleanup_lammps, init_lammps, run_lammps, restart_lammps, data_lammps    *)
(* and the two test cases AngleStyle.plain and AngleStyle.omp, run one     *)
(* after the other in one process by the test runner, and the generator   *)
(* generate_yaml_file, which a process runs instead of the test cases.     *)
(*                                                                         *)
(* A test case is a straight-line program with early returns; it is kept   *)
(* as a table of steps (PlainProgram, OmpProgram), one entry per statement *)
(* group of the source, with the source line in the entry.  pc is the      *)
(* index of the step the running test case executes next.                  *)
(***************************************************************************)
EXTENDS Integers, Sequences, FiniteSets, TLC

\* ------------------------------------------------------------- bounds

\* longest prerequisites list of a config
MaxPrereq == 2
\* longest pre_commands / angle_coeff / post_commands list of a config
MaxCmds == 1
\* number of atoms of the system the input file describes
NAtoms == 2
\* number of lammps_open / lammps_open_no_mpi calls of a library caller
MaxOpens == 3

\* ------------------------------------------------------ the null pointer

NULL == 0

\* ------------------------------------------------------------- inputs

\* the (category, style) pairs a config may require
PrereqUniverse == { <<"angle", "harmonic">>, <<"atom", "full">> }

\* the style-table entries an engine build may hold: category, style, suffix
StyleUniverse ==
    { <<"angle", "harmonic", "">>, <<"angle", "harmonic", "omp">>,
      <<"atom", "full", "">> }

SeqsUpTo(S, n) == UNION { [1..k -> S] : k \in 0..n }

\* an opaque command list of a config: n distinguishable entries, in order
CmdList(kind, n) == [i \in 1..n |-> [cmd |-> kind, arg |-> "", idx |-> i]]

\* the angle_style of a config, as its characters
AngleStyles ==
    { <<"z", "e", "r", "o">>,
      <<"h", "y", "b", "r", "i", "d", " ", "z", "e", "r", "o">> }

\* the epsilon of a config, as a whole number of units of 1e-9
EpsValues == {100, 125}

\* TestConfig, as read_yaml_file populated it; the force vectors are kept
\* by their number of entries (slot 0 included)
Configs ==
    { [epsilon |-> eps,
       input_file |-> "input_file",
       prerequisites |-> p,
       pre_commands |-> CmdList("pre_command", n),
       angle_style |-> s,
       angle_coeff |-> CmdList("angle_coeff", n),
       post_commands |-> CmdList("post_command", n),
       init_forces_size |-> fi,
       run_forces_size |-> fr] :
      p \in SeqsUpTo(PrereqUniverse, MaxPrereq), n \in 0..MaxCmds,
      s \in AngleStyles,
      fi \in {NAtoms, NAtoms + 1}, fr \in {NAtoms, NAtoms + 1},
      eps \in EpsValues }

\* an engine build: its style tables and whether USER-OMP is installed;
\* all_local: every atom is local to this MPI rank
Builds ==
    { [styles |-> st, user_omp |-> o, all_local |-> l] :
      st \in SUBSET StyleUniverse, o \in BOOLEAN, l \in BOOLEAN }

Files == { "restart", "data", "coeffs" }

TestCases == << "plain", "omp" >>

\* the value of test while generate_yaml_file runs
GENERATE == 0

VARIABLES
    test_config,   \* the global TestConfig
    build,         \* the engine build and MPI layout the tests run on
    test,          \* index in TestCases of the running test case;
                   \* GENERATE: the process runs generate_yaml_file
    pc,            \* next step of the running test case
    lmp,           \* the test case's local LAMMPS *lmp
    nlocal,        \* the test case's local const int nlocal
    alive,         \* engine instances constructed and not destroyed
    eng,           \* state of the instance lmp points to
    next_id,       \* identity of the next instance constructed
    files,         \* the temporary files that exist
    cmds,          \* engine commands the running test case issued
    compared,      \* value comparisons the running test case executed
    failed,        \* the running test case has a failure recorded
    skipped,       \* the running test case called GTEST_SKIP
    outcome,       \* outcome of each finished test case
    hist,          \* what the running test case has done so far
    yaml,          \* the entries generate_yaml_file has emitted, in order
    fp,            \* one value comparison: its operands and its result
    lib,           \* a caller of the C library: its handles, the instances
    rd             \* one call of read_yaml_file: its inputs and its result

vars == << test_config, build, test, pc, lmp, nlocal, alive, eng, next_id,
           files, cmds, compared, failed, skipped, outcome, hist, yaml,
           fp, lib, rd >>

\* the variables of the test program
progvars == << test_config, build, test, pc, lmp, nlocal, alive, eng,
               next_id, files, cmds, compared, failed, skipped, outcome,
               hist, yaml >>

\* ------------------------------------------------- the test programs

\* one statement group of a test case body
Step(op, line) ==
    [op |-> op, newton |-> TRUE, path |-> "", qty |-> "", ref |-> "",
     mult |-> 0, line |-> line]

\* lmp = init_lammps(argc,argv,test_config,newton)
InitStep(newton, line) == [Step("init", line) EXCEPT !.newton = newton]

\* ASSERT_EQ(nlocal+1, <ref>.size())
SizeStep(ref, line) == [Step("assert_size", line) EXCEPT !.ref = ref]

\* a comparison that TEST(AngleStyle, omp), which begins at line 578, makes
\* without its relaxed epsilon
CmpStep_unrelaxed(path, newton, qty, ref, mult, line) ==
    [op |-> "compare", newton |-> newton, path |-> path, qty |-> qty,
     ref |-> ref, mult |-> IF line > 578 THEN mult \div 5 ELSE mult,
     line |-> line]

\* a comparison that widens the tolerance after a reload
CmpStep_widened(path, newton, qty, ref, mult, line) ==
    [op |-> "compare", newton |-> newton, path |-> path, qty |-> qty,
     ref |-> ref,
     mult |-> IF path \in {"restart", "data"} THEN mult + mult ELSE mult,
     line |-> line]

\* the EXPECT_FP_LE_WITH_EPS calls of one quantity: live values of path
\* `path` (flag `newton`) against test_config.<ref> at mult * test_config.epsilon
CmpStep(path, newton, qty, ref, mult, line) ==
    [op |-> "compare", newton |-> newton, path |-> path, qty |-> qty,
     ref |-> ref, mult |-> mult, line |-> line]

\* the same, under  if (test_config.angle_style.substr(0,6) != "hybrid")
CmpNonHybridStep(path, newton, qty, ref, mult, line) ==
    [CmpStep(path, newton, qty, ref, mult, line)
        EXCEPT !.op = "compare_nonhybrid"]

\* TEST(AngleStyle, plain)
PlainProgram ==
    << InitStep(TRUE, 352), Step("null_check", 355),
       Step("expect_output", 365), Step("assert_natoms", 369),
       Step("fetch", 373), Step("reset", 376),
       SizeStep("init_forces", 378),
       CmpStep("init", TRUE, "forces", "init_forces", 1, 379),
       Step("fetch", 387), Step("reset", 389),
       CmpStep("init", TRUE, "stress", "init_stress", 1, 390),
       Step("reset", 399),
       CmpStep("init", TRUE, "energy", "init_energy", 1, 400),
       Step("run", 405), Step("fetch", 408),
       SizeStep("run_forces", 411), Step("reset", 412),
       CmpStep("run", TRUE, "forces", "run_forces", 10, 413),
       Step("reset", 422),
       CmpStep("run", TRUE, "stress", "run_stress", 1, 423),
       Step("reset", 432),
       CmpStep("run", TRUE, "energy", "run_energy", 1, 435),
       CmpStep("run", TRUE, "energy", "c_sum", 1, 436),
       Step("cleanup", 441), InitStep(FALSE, 442),
       Step("fetch", 445), Step("reset", 447),
       CmpStep("init", FALSE, "forces", "init_forces", 1, 448),
       Step("fetch", 456), Step("reset", 458),
       CmpStep("init", FALSE, "stress", "init_stress", 2, 459),
       Step("reset", 468),
       CmpStep("init", FALSE, "energy", "init_energy", 1, 469),
       Step("run", 474), Step("fetch", 477), Step("reset", 479),
       CmpStep("run", FALSE, "forces", "run_forces", 10, 480),
       Step("reset", 489),
       CmpStep("run", FALSE, "stress", "run_stress", 1, 490),
       Step("reset", 499),
       CmpStep("run", FALSE, "energy", "run_energy", 1, 502),
       CmpStep("run", FALSE, "energy", "c_sum", 1, 503),
       Step("restart", 508), Step("fetch", 511), Step("reset", 513),
       SizeStep("init_forces", 514),
       CmpStep("restart", FALSE, "forces", "init_forces", 1, 515),
       Step("fetch", 523), Step("reset", 525),
       CmpStep("restart", FALSE, "stress", "init_stress", 1, 526),
       Step("reset", 535),
       CmpStep("restart", FALSE, "energy", "init_energy", 1, 536),
       Step("data", 541), Step("fetch", 544), Step("reset", 546),
       SizeStep("init_forces", 547),
       CmpStep("data", TRUE, "forces", "init_forces", 1, 548),
       Step("fetch", 556), Step("reset", 558),
       CmpStep("data", TRUE, "stress", "init_stress", 1, 559),
       Step("reset", 568),
       CmpStep("data", TRUE, "energy", "init_energy", 1, 569),
       Step("cleanup", 574) >>

\* TEST(AngleStyle, omp); its epsilon is 5.0*test_config.epsilon
OmpProgram ==
    << Step("pkg_check", 579),
       InitStep(TRUE, 586), Step("null_check", 589),
       Step("expect_output", 599), Step("assert_natoms", 603),
       Step("fetch", 608), Step("reset", 612),
       CmpStep("init", TRUE, "forces", "init_forces", 5, 613),
       Step("fetch", 621), Step("reset", 624),
       CmpStep("init", TRUE, "stress", "init_stress", 50, 625),
       Step("reset", 634),
       CmpStep("init", TRUE, "energy", "init_energy", 5, 635),
       Step("run", 640), Step("fetch", 643),
       SizeStep("run_forces", 646), Step("reset", 647),
       CmpStep("run", TRUE, "forces", "run_forces", 50, 648),
       Step("reset", 657),
       CmpStep("run", TRUE, "stress", "run_stress", 50, 658),
       Step("reset", 667),
       CmpStep("run", TRUE, "energy", "run_energy", 5, 670),
       CmpNonHybridStep("run", TRUE, "energy", "c_sum", 5, 673),
       Step("cleanup", 679), InitStep(FALSE, 680),
       Step("fetch", 683), Step("reset", 685),
       CmpStep("init", FALSE, "forces", "init_forces", 5, 686),
       Step("fetch", 694), Step("reset", 696),
       CmpStep("init", FALSE, "stress", "init_stress", 50, 697),
       Step("reset", 706),
       CmpStep("init", FALSE, "energy", "init_energy", 5, 707),
       Step("run", 712), Step("fetch", 715), Step("reset", 716),
       CmpStep("run", FALSE, "forces", "run_forces", 50, 717),
       Step("reset", 726),
       CmpStep("run", FALSE, "stress", "run_stress", 50, 727),
       Step("reset", 736),
       CmpStep("run", FALSE, "energy", "run_energy", 5, 739),
       CmpNonHybridStep("run", FALSE, "energy", "c_sum", 5, 742),
       Step("cleanup", 748) >>

\* an emit that writes run_stress and run_energy in each other's place
EmitStep_swapped(tag, line) ==
    [Step("emit", line) EXCEPT !.ref =
        IF tag = "run_energy" THEN "run_stress"
        ELSE IF tag = "run_stress" THEN "run_energy" ELSE tag]

\* writer.emit(tag, ...) / writer.emit_block(tag, ...)
EmitStep(tag, line) == [Step("emit", line) EXCEPT !.ref = tag]

\* a generate_yaml_file that emits run_energy before the short run
GenProgram_late_run ==
    << InitStep(TRUE, 225), Step("gen_null_check", 226),
       Step("fetch", 236), Step("open_writer", 241),
       EmitStep("lammps_version", 244), EmitStep("date_generated", 250),
       EmitStep("epsilon", 253), EmitStep("prerequisites", 260),
       EmitStep("pre_commands", 267), EmitStep("post_commands", 274),
       EmitStep("input_file", 277), EmitStep("angle_style", 280),
       EmitStep("angle_coeff", 287), EmitStep("extract", 295),
       EmitStep("natoms", 298), EmitStep("init_energy", 301),
       EmitStep("init_stress", 307), EmitStep("init_forces", 318),
       EmitStep("run_energy", 324),
       Step("run", 321),
       EmitStep("run_stress", 330),
       EmitStep("run_forces", 340),
       Step("cleanup", 342) >>

\* a generate_yaml_file that constructs its writer before init_lammps
GenProgram_writer_first ==
    << Step("open_writer", 241),
       InitStep(TRUE, 225), Step("gen_null_check", 226),
       Step("fetch", 236),
       EmitStep("lammps_version", 244), EmitStep("date_generated", 250),
       EmitStep("epsilon", 253), EmitStep("prerequisites", 260),
       EmitStep("pre_commands", 267), EmitStep("post_commands", 274),
       EmitStep("input_file", 277), EmitStep("angle_style", 280),
       EmitStep("angle_coeff", 287), EmitStep("extract", 295),
       EmitStep("natoms", 298), EmitStep("init_energy", 301),
       EmitStep("init_stress", 307), EmitStep("init_forces", 318),
       Step("run", 321),
       EmitStep("run_energy", 324), EmitStep("run_stress", 330),
       EmitStep("run_forces", 340),
       Step("cleanup", 342) >>

\* generate_yaml_file
GenProgram ==
    << InitStep(TRUE, 225), Step("gen_null_check", 226),
       Step("fetch", 236), Step("open_writer", 241),
       EmitStep("lammps_version", 244), EmitStep("date_generated", 250),
       EmitStep("epsilon", 253), EmitStep("prerequisites", 260),
       EmitStep("pre_commands", 267), EmitStep("post_commands", 274),
       EmitStep("input_file", 277), EmitStep("angle_style", 280),
       EmitStep("angle_coeff", 287), EmitStep("extract", 295),
       EmitStep("natoms", 298), EmitStep("init_energy", 301),
       EmitStep("init_stress", 307), EmitStep("init_forces", 318),
       Step("run", 321),
       EmitStep("run_energy", 324), EmitStep("run_stress", 330),
       EmitStep("run_forces", 340),
       Step("cleanup", 342) >>

Program(t) ==
    IF t = GENERATE THEN GenProgram
    ELSE IF TestCases[t] = "plain" THEN PlainProgram ELSE OmpProgram

\* the position after the last statement: the test case body has returned
End(t) == Len(Program(t)) + 1

\* a test case, or the generator, is running and has not returned
Running ==
    /\ test \in {GENERATE} \cup (1..Len(TestCases))
    /\ pc \in 1..Len(Program(test))

\* the step the running test case executes next
Cur == Program(test)[pc]

At(op) == Running /\ Cur.op = op

\* ------------------------------------------------- the engine, as used

Cmd(c, a, i) == [cmd |-> c, arg |-> a, idx |-> i]

\* Info::has_style(category, style): the build's style table holds the style
has_style(b, category, style, suffix) == <<category, style, suffix>> \in b.styles

\* lmp->suffix_enable: the omp test case passes "-sf", "omp"
suffix_enable(t) == t # GENERATE /\ TestCases[t] = "omp"

\* PrereqSuffix with the suffix appended for every category
PrereqSuffix_every(prerequisite, sfx) == IF sfx THEN "omp" ELSE ""

\* PrereqSuffix with the suffix never appended
PrereqSuffix_never(prerequisite, sfx) == ""

\* the suffix init_lammps appends to the style of a prerequisite
PrereqSuffix(prerequisite, sfx) ==
    IF prerequisite[1] = "angle" /\ sfx THEN "omp" ELSE ""

\* nfail with "nfail = ..." for "++nfail": the last prerequisite decides
nfail_last(prerequisites, b, sfx) ==
    IF prerequisites = << >> THEN 0
    ELSE LET p == prerequisites[Len(prerequisites)]
         IN  IF has_style(b, p[1], p[2], PrereqSuffix(p, sfx)) THEN 0 ELSE 1

\* init_lammps: the count of prerequisites has_style does not find
RECURSIVE nfail(_, _, _)
nfail(prerequisites, b, sfx) ==
    IF prerequisites = << >> THEN 0
    ELSE LET p == Head(prerequisites)
         IN  (IF has_style(b, p[1], p[2], PrereqSuffix(p, sfx)) THEN 0 ELSE 1)
             + nfail(Tail(prerequisites), b, sfx)

\* init_lammps: the category, style and suffix each call of has_style is
\* made with, one call per prerequisite
Probes(prerequisites, sfx) ==
    [i \in DOMAIN prerequisites |->
        << prerequisites[i][1], prerequisites[i][2],
           PrereqSuffix(prerequisites[i], sfx) >>]

\* a test for the style named exactly hybrid
IsHybrid_exact(style) == style = <<"h", "y", "b", "r", "i", "d">>

\* std::string::substr(0,6) == "hybrid"
IsHybrid(style) ==
    SubSeq(style, 1, IF Len(style) < 6 THEN Len(style) ELSE 6)
        = <<"h", "y", "b", "r", "i", "d">>

\* a teardown that removes no file
cleanup_files_none(f) == f

\* cleanup_lammps: the three files are removed, the instance is deleted
cleanup_files(f) == f \ Files
cleanup_alive(a, l) == a \ {l}

\* an init_lammps that writes its files before the zero-step run
InitCmds_write_first(cfg, newton) ==
    << Cmd("variable newton_bond index", IF newton THEN "on" ELSE "off", 0),
       Cmd("variable input_dir index", "TEST_INPUT_FOLDER", 0) >>
    \o cfg.pre_commands
    \o << Cmd("file", "input_file", 0), Cmd("angle_style", "angle_style", 0) >>
    \o cfg.angle_coeff
    \o cfg.post_commands
    \o << Cmd("write_restart", "restart", 0),
          Cmd("write_data", "data", 0),
          Cmd("write_coeff", "coeffs", 0),
          Cmd("run", "0 post no", 0) >>

\* an init_lammps that writes no restart file
InitCmds_no_restart(cfg, newton) ==
    << Cmd("variable newton_bond index", IF newton THEN "on" ELSE "off", 0),
       Cmd("variable input_dir index", "TEST_INPUT_FOLDER", 0) >>
    \o cfg.pre_commands
    \o << Cmd("file", "input_file", 0), Cmd("angle_style", "angle_style", 0) >>
    \o cfg.angle_coeff
    \o cfg.post_commands
    \o << Cmd("run", "0 post no", 0),
          Cmd("write_data", "data", 0),
          Cmd("write_coeff", "coeffs", 0) >>

\* init_lammps past the prerequisite check: the commands it issues, in order
InitCmds(cfg, newton) ==
    << Cmd("variable newton_bond index", IF newton THEN "on" ELSE "off", 0),
       Cmd("variable input_dir index", "TEST_INPUT_FOLDER", 0) >>
    \o cfg.pre_commands
    \o << Cmd("file", "input_file", 0), Cmd("angle_style", "angle_style", 0) >>
    \o cfg.angle_coeff
    \o cfg.post_commands
    \o << Cmd("run", "0 post no", 0),
          Cmd("write_restart", "restart", 0),
          Cmd("write_data", "data", 0),
          Cmd("write_coeff", "coeffs", 0) >>

\* a run_lammps that advances the engine before it attaches anything
RunCmds_run_first ==
    << Cmd("run", "4 post no", 0),
       Cmd("fix", "1 all nve", 0),
       Cmd("compute", "pe all pe/atom", 0),
       Cmd("compute", "sum all reduce sum c_pe", 0),
       Cmd("thermo_style", "custom step temp pe press c_sum", 0),
       Cmd("thermo", "2", 0) >>

\* run_lammps: the commands it issues, in order
RunCmds ==
    << Cmd("fix", "1 all nve", 0),
       Cmd("compute", "pe all pe/atom", 0),
       Cmd("compute", "sum all reduce sum c_pe", 0),
       Cmd("thermo_style", "custom step temp pe press c_sum", 0),
       Cmd("thermo", "2", 0),
       Cmd("run", "4 post no", 0) >>

\* a restart_lammps that issues angle_style when the snapshot restored it
RestartCmds_style_flipped(cfg, has_angle, writedata) ==
    << Cmd("clear", "", 0), Cmd("read_restart", "restart", 0) >>
    \o (IF has_angle THEN << Cmd("angle_style", "angle_style", 0) >>
        ELSE << >>)
    \o (IF IsHybrid(cfg.angle_style) \/ ~writedata THEN cfg.angle_coeff
        ELSE << >>)
    \o cfg.post_commands
    \o << Cmd("run", "0 post no", 0) >>

\* restart_lammps: the commands it issues; has_angle: lmp->force->angle is
\* set after read_restart, writedata: lmp->force->angle->writedata
RestartCmds(cfg, has_angle, writedata) ==
    << Cmd("clear", "", 0), Cmd("read_restart", "restart", 0) >>
    \o (IF ~has_angle THEN << Cmd("angle_style", "angle_style", 0) >>
        ELSE << >>)
    \o (IF IsHybrid(cfg.angle_style) \/ ~writedata THEN cfg.angle_coeff
        ELSE << >>)
    \o cfg.post_commands
    \o << Cmd("run", "0 post no", 0) >>

\* a data_lammps that defines newton_bond without deleting it first
DataCmds_keep_newton(cfg) ==
    << Cmd("clear", "", 0),
       Cmd("variable angle_style", "delete", 0),
       Cmd("variable data_file", "delete", 0),
       Cmd("variable newton_bond index", "on", 0) >>
    \o cfg.pre_commands
    \o << Cmd("variable angle_style index", "angle_style", 0),
          Cmd("variable data_file index", "data", 0),
          Cmd("file", "input_file", 0) >>
    \o cfg.angle_coeff
    \o cfg.post_commands
    \o << Cmd("run", "0 post no", 0) >>

\* a data_lammps that executes the input file before it defines the
\* variables the input file reads
DataCmds_file_first(cfg) ==
    << Cmd("clear", "", 0),
       Cmd("variable angle_style", "delete", 0),
       Cmd("variable data_file", "delete", 0),
       Cmd("variable newton_bond", "delete", 0),
       Cmd("variable newton_bond index", "on", 0) >>
    \o cfg.pre_commands
    \o << Cmd("file", "input_file", 0),
          Cmd("variable angle_style index", "angle_style", 0),
          Cmd("variable data_file index", "data", 0) >>
    \o cfg.angle_coeff
    \o cfg.post_commands
    \o << Cmd("run", "0 post no", 0) >>

\* data_lammps: the commands it issues, in order
DataCmds(cfg) ==
    << Cmd("clear", "", 0),
       Cmd("variable angle_style", "delete", 0),
       Cmd("variable data_file", "delete", 0),
       Cmd("variable newton_bond", "delete", 0),
       Cmd("variable newton_bond index", "on", 0) >>
    \o cfg.pre_commands
    \o << Cmd("variable angle_style index", "angle_style", 0),
          Cmd("variable data_file index", "data", 0),
          Cmd("file", "input_file", 0) >>
    \o cfg.angle_coeff
    \o cfg.post_commands
    \o << Cmd("run", "0 post no", 0) >>

\* the files a sequence of commands writes, the files it reads
WrittenBy(seq) ==
    {seq[i].arg : i \in {j \in DOMAIN seq : seq[j].cmd \in
        {"write_restart", "write_data", "write_coeff"}}}
ReadBy(seq) ==
    {seq[i].arg : i \in {j \in DOMAIN seq : seq[j].cmd \in
        {"read_restart", "variable data_file index"}}}

\* who wrote the files on disk, as << file, instance, newton_bond >>,
\* after an instance has written the files w
Wrote(origin, w, id, newton) ==
    {o \in origin : o[1] \notin w} \cup {<< f, id, newton >> : f \in w}

\* the same after cleanup_lammps
Removed(origin) == {o \in origin : o[1] \in cleanup_files({o[1]})}

\* the record of a reload: the file, the instance that reads it, whether the
\* file is on disk and who wrote it
Load(f, l, fs, origin) ==
    [file |-> f, lmp |-> l, present |-> f \in fs,
     origin |-> {o \in origin : o[1] = f}]

\* the reloads of a step that issues seq; CHOOSE orders the files read
RECURSIVE Loads(_, _, _, _)
Loads(fset, l, fs, origin) ==
    IF fset = {} THEN << >>
    ELSE LET f == CHOOSE x \in fset : TRUE
         IN  << Load(f, l, fs, origin) >> \o Loads(fset \ {f}, l, fs, origin)

\* the engine state after a path has loaded the system
Engine(b, path) ==
    [natoms |-> NAtoms,
     nlocal |-> IF b.all_local THEN NAtoms ELSE NAtoms - 1,
     path |-> path]

NoEngine == [natoms |-> 0, nlocal |-> 0, path |-> ""]

\* no value comparison under way, no caller of the library
NoFP == [expected |-> << >>, live |-> << >>, done |-> FALSE,
         accepted |-> FALSE, violations |-> 0]
NoRead == [rc |-> 0, reader |-> "", before |-> "", basename |-> "",
           returned |-> "none"]
NoLib == [handle |-> << >>, instances |-> {}, closed |-> {},
          mpi |-> "none", next |-> 1, last |-> "none"]

\* the local variables of a test body that hold pointers into the engine
Pointers == {"f", "tag", "angle", "stress"}

\* a fetch that reads tag only in the statements before the first comparison
Fetched_tag_once(line) ==
    IF line \in {373, 608} THEN {"f", "tag"}
    ELSE IF line \in {445, 511, 544, 683} THEN {"f"}
    ELSE IF line \in {387, 456, 523, 556, 621, 694} THEN {"angle", "stress"}
    ELSE IF line \in {408, 477, 643} THEN {"f", "stress"}
    ELSE IF line = 715 THEN {"f"}
    ELSE {}

\* the pointers the statements beginning at a line read from the engine:
\* f=lmp->atom->f; tag=lmp->atom->tag;  /  angle = lmp->force->angle;
\* stress = angle->virial;  /  f = lmp->atom->f; stress = angle->virial;
Fetched(line) ==
    IF line \in {373, 445, 511, 544, 608, 683} THEN {"f", "tag"}
    ELSE IF line \in {387, 456, 523, 556, 621, 694} THEN {"angle", "stress"}
    ELSE IF line \in {408, 477, 643} THEN {"f", "stress"}
    ELSE IF line = 715 THEN {"f"}
    ELSE {}

\* the pointers a comparison of a quantity dereferences: f[i][k] and
\* tag[i], stress[k], angle->energy
Uses(qty) ==
    IF qty = "forces" THEN {"f", "tag"}
    ELSE IF qty = "stress" THEN {"stress"} ELSE {"angle"}

\* the history of a test case that has not started
NoHist ==
    [checked |-> FALSE, struct_checked |-> FALSE, size_checked |-> {},
     fatal |-> FALSE, violated |-> FALSE, created |-> {},
     written |-> {}, read |-> {}, calls |-> << >>,
     stats_reset |-> FALSE, stats_blocks |-> {},
     restored |-> << >>, origin |-> {}, loads |-> << >>,
     epoch |-> 0, ptr |-> [p \in Pointers |-> -1],
     outfile |-> "absent", probed |-> << >>]

\* ------------------------------------------------------ the test cases

Init ==
    /\ test_config \in Configs
    /\ build \in Builds
    /\ test \in {GENERATE, 1}
    \* the test cases use epsilon only as the unit of their tolerances
    /\ test # GENERATE => test_config.epsilon = 100
    \* the generator does not read the reference values of the config
    /\ test = GENERATE =>
          /\ test_config.init_forces_size = NAtoms + 1
          /\ test_config.run_forces_size = NAtoms + 1
    /\ pc = 1
    /\ lmp = NULL
    /\ nlocal = 0
    /\ alive = {}
    /\ eng = NoEngine
    /\ next_id = 1
    /\ files = {}
    /\ cmds = << >>
    /\ compared = << >>
    /\ failed = FALSE
    /\ skipped = FALSE
    /\ outcome = [t \in 1..Len(TestCases) |-> "none"]
    /\ hist = NoHist
    /\ yaml = << >>
    /\ fp = NoFP
    /\ lib = NoLib
    /\ rd = NoRead

\* AfterAssert with EXPECT_EQ for ASSERT_EQ
AfterAssert_nonfatal(ok, next, end) == next

\* ASSERT_EQ: a failed fatal assertion returns from the test case body
AfterAssert(ok, next, end) == IF ok THEN next ELSE end

\* AfterExpect with a fatal assertion for the expectation
AfterExpect_fatal(ok, next, end) == IF ok THEN next ELSE end

\* EXPECT_THAT, EXPECT_FP_LE_WITH_EPS: a failed expectation does not return
AfterExpect(ok, next, end) == next

\* if (!lmp) { ...; GTEST_SKIP(); }
AfterNullCheck(l, next, end) == IF l = NULL THEN end ELSE next

\* a dereference of lmp is defined only when it points to a live instance
Valid(l) == l \in alive

\* undefined behaviour ended the process: no further test case runs
Crash ==
    /\ outcome' = IF test = GENERATE THEN outcome
                  ELSE [outcome EXCEPT ![test] = "crash"]
    /\ test' = Len(TestCases) + 1
    /\ pc' = 1
    /\ UNCHANGED << yaml, test_config, build, lmp, nlocal, alive, eng, next_id,
                    files, cmds, compared, failed, skipped, hist >>

\* if (!LAMMPS_NS::LAMMPS::is_installed_pkg("USER-OMP")) GTEST_SKIP();
PkgCheck ==
    /\ UNCHANGED << fp, lib, rd >>
    /\ At("pkg_check")
    /\ skipped' = (skipped \/ ~build.user_omp)
    /\ pc' = IF build.user_omp THEN pc + 1 ELSE End(test)
    /\ UNCHANGED << yaml, test_config, build, test, lmp, nlocal, alive, eng,
                    next_id, files, cmds, compared, failed, outcome, hist >>

\* lmp = init_lammps(argc,argv,test_config,newton)
InitLammps ==
    /\ UNCHANGED << fp, lib, rd >>
    /\ At("init")
    /\ LET id == next_id
           unmet == nfail(test_config.prerequisites, build,
                          suffix_enable(test)) > 0
       IN  /\ next_id' = id + 1
           /\ lmp' = IF unmet THEN NULL ELSE id
           /\ alive' = IF unmet THEN cleanup_alive(alive \cup {id}, id)
                       ELSE alive \cup {id}
           /\ files' = IF unmet THEN cleanup_files(files)
                       ELSE files \cup
                            WrittenBy(InitCmds(test_config, Cur.newton))
           /\ cmds' = IF unmet THEN cmds
                      ELSE cmds \o InitCmds(test_config, Cur.newton)
           /\ eng' = IF unmet THEN NoEngine ELSE Engine(build, "init")
           /\ hist' = [hist EXCEPT
                         !.checked = FALSE,
                         !.struct_checked = FALSE,
                         !.created = @ \cup {id},
                         !.written = IF unmet THEN @ ELSE @ \cup
                            WrittenBy(InitCmds(test_config, Cur.newton)),
                         !.origin = IF unmet THEN Removed(@)
                            ELSE Wrote(@, WrittenBy(InitCmds(test_config,
                                          Cur.newton)), id, Cur.newton),
                         !.epoch = @ + 1,
                         !.probed = Probes(test_config.prerequisites,
                                           suffix_enable(test)),
                         !.calls = Append(@, Cur.line)]
    /\ pc' = pc + 1
    /\ UNCHANGED << yaml, test_config, build, test, nlocal, compared, failed,
                    skipped, outcome >>

\* if (!lmp) { std::cerr << ...; GTEST_SKIP(); }
NullCheck ==
    /\ UNCHANGED << fp, lib, rd >>
    /\ At("null_check")
    /\ skipped' = (skipped \/ lmp = NULL)
    /\ pc' = AfterNullCheck(lmp, pc + 1, End(test))
    /\ hist' = [hist EXCEPT !.checked = TRUE]
    /\ UNCHANGED << yaml, test_config, build, test, lmp, nlocal, alive, eng,
                    next_id, files, cmds, compared, failed, outcome >>

\* EXPECT_THAT(output, StartsWith("LAMMPS ("));
\* EXPECT_THAT(output, HasSubstr("Loop time"));
ExpectOutput ==
    /\ UNCHANGED << fp, lib, rd >>
    /\ At("expect_output")
    /\ \E ok \in BOOLEAN :
         /\ failed' = (failed \/ ~ok)
         /\ pc' = AfterExpect(ok, pc + 1, End(test))
    /\ UNCHANGED << yaml, test_config, build, test, lmp, nlocal, alive, eng,
                    next_id, files, cmds, compared, skipped, outcome, hist >>

\* const int nlocal = lmp->atom->nlocal; ASSERT_EQ(lmp->atom->natoms,nlocal);
AssertNatoms ==
    /\ UNCHANGED << fp, lib, rd >>
    /\ At("assert_natoms")
    /\ IF ~Valid(lmp) THEN Crash
       ELSE /\ nlocal' = eng.nlocal
            /\ failed' = (failed \/ eng.natoms # eng.nlocal)
            /\ pc' = AfterAssert(eng.natoms = eng.nlocal, pc + 1, End(test))
            /\ hist' = [hist EXCEPT
                          !.struct_checked = TRUE,
                          !.fatal = @ \/ eng.natoms # eng.nlocal]
            /\ UNCHANGED << yaml, test_config, build, test, lmp, alive, eng,
                            next_id, files, cmds, compared, skipped, outcome >>

\* f=lmp->atom->f; tag=lmp->atom->tag; angle = lmp->force->angle;
Fetch ==
    /\ UNCHANGED << fp, lib, rd >>
    /\ At("fetch")
    /\ IF ~Valid(lmp) THEN Crash
       ELSE /\ pc' = pc + 1
            /\ hist' = [hist EXCEPT !.ptr =
                          [p \in Pointers |->
                              IF p \in Fetched(Cur.line) THEN hist.epoch
                              ELSE @[p]]]
            /\ UNCHANGED << yaml, test_config, build, test, lmp, nlocal, alive,
                            eng, next_id, files, cmds, compared, failed,
                            skipped, outcome >>

\* a reset that leaves the accumulated statistics in place
StatsReset_noop ==
    /\ UNCHANGED << fp, lib, rd >>
    /\ At("reset")
    /\ pc' = pc + 1
    /\ UNCHANGED << yaml, test_config, build, test, lmp, nlocal, alive, eng,
                    next_id, files, cmds, compared, failed, skipped,
                    outcome, hist >>

\* stats.reset();
StatsReset ==
    /\ UNCHANGED << fp, lib, rd >>
    /\ At("reset")
    /\ pc' = pc + 1
    /\ hist' = [hist EXCEPT !.stats_reset = TRUE, !.stats_blocks = {}]
    /\ UNCHANGED << yaml, test_config, build, test, lmp, nlocal, alive, eng,
                    next_id, files, cmds, compared, failed, skipped,
                    outcome >>

\* the number of entries of test_config.init_forces or .run_forces
VecSize(cfg, ref) ==
    IF ref = "init_forces" THEN cfg.init_forces_size ELSE cfg.run_forces_size

\* ASSERT_EQ(nlocal+1,f_ref.size());  ASSERT_EQ(nlocal+1,f_run.size());
AssertSize ==
    /\ UNCHANGED << fp, lib, rd >>
    /\ At("assert_size")
    /\ LET ok == nlocal + 1 = VecSize(test_config, Cur.ref)
       IN  /\ failed' = (failed \/ ~ok)
           /\ pc' = AfterAssert(ok, pc + 1, End(test))
           /\ hist' = [hist EXCEPT
                         !.size_checked = IF ok THEN @ \cup {Cur.ref} ELSE @,
                         !.fatal = @ \/ ~ok]
    /\ UNCHANGED << yaml, test_config, build, test, lmp, nlocal, alive, eng,
                    next_id, files, cmds, compared, skipped, outcome >>

\* f_ref[tag[i]], f_run[tag[i]]: the tags run from 1 to natoms, so the
\* index stays inside the vector only if it has more than natoms entries
Indexable(cfg, ref, e) ==
    ref \in {"init_forces", "run_forces"} => e.natoms < VecSize(cfg, ref)

\* the comparison block a compare step belongs to: one quantity of one path
\* and newton_bond setting
Block(st) == << st.path, st.newton, st.qty >>

\* the EXPECT_FP_LE_WITH_EPS calls of the step at pc: some may fail (viol);
\* an index outside the reference vector is undefined behaviour, which may
\* end the process or deliver some value
CompareValues ==
    IF ~Valid(lmp) THEN Crash
    ELSE \/ /\ \E viol \in BOOLEAN :
                 /\ failed' = (failed \/ viol)
                 /\ hist' = [hist EXCEPT
                        !.violated = @ \/ viol,
                        !.stats_blocks = @ \cup {Block(Cur)}]
                 /\ pc' = AfterExpect(~viol, pc + 1, End(test))
            /\ compared' = Append(compared,
                   [path |-> Cur.path, newton |-> Cur.newton,
                    qty |-> Cur.qty, ref |-> Cur.ref, mult |-> Cur.mult,
                    line |-> Cur.line])
            /\ UNCHANGED << yaml, test_config, build, test, lmp, nlocal, alive,
                            eng, next_id, files, cmds, skipped, outcome >>
         \/ /\ ~Indexable(test_config, Cur.ref, eng)
            /\ Crash

\* for (i < nlocal) EXPECT_FP_LE_WITH_EPS(f[i][0], f_ref[tag[i]].x, epsilon); ...
Compare ==
    /\ UNCHANGED << fp, lib, rd >>
    /\ At("compare")
    /\ CompareValues

\* if (test_config.angle_style.substr(0,6) != "hybrid")
\*     EXPECT_FP_LE_WITH_EPS(angle->energy, energy, epsilon);
CompareNonHybrid ==
    /\ UNCHANGED << fp, lib, rd >>
    /\ At("compare_nonhybrid")
    /\ IF IsHybrid(test_config.angle_style)
       THEN /\ pc' = pc + 1
            /\ UNCHANGED << yaml, test_config, build, test, lmp, nlocal, alive,
                            eng, next_id, files, cmds, compared, failed,
                            skipped, outcome, hist >>
       ELSE CompareValues

\* run_lammps(lmp);
RunLammps ==
    /\ UNCHANGED << fp, lib, rd >>
    /\ At("run")
    /\ IF ~Valid(lmp) THEN Crash
       ELSE /\ cmds' = cmds \o RunCmds
            /\ eng' = [eng EXCEPT !.path = "run"]
            /\ hist' = [hist EXCEPT !.calls = Append(@, Cur.line)]
            /\ pc' = pc + 1
            /\ UNCHANGED << yaml, test_config, build, test, lmp, nlocal, alive,
                            next_id, files, compared, failed, skipped,
                            outcome >>

\* cleanup_lammps(lmp,test_config);
CleanupLammps ==
    /\ UNCHANGED << fp, lib, rd >>
    /\ At("cleanup")
    /\ files' = cleanup_files(files)
    /\ alive' = cleanup_alive(alive, lmp)
    /\ eng' = NoEngine
    /\ hist' = [hist EXCEPT !.calls = Append(@, Cur.line),
                            !.epoch = @ + 1,
                            !.origin = Removed(@)]
    /\ pc' = pc + 1
    /\ UNCHANGED << yaml, test_config, build, test, lmp, nlocal, next_id, cmds,
                    compared, failed, skipped, outcome >>

\* restart_lammps(lmp, test_config); the snapshot may or may not restore the
\* style (has_angle), the style may or may not write its coefficients
RestartLammps ==
    /\ UNCHANGED << fp, lib, rd >>
    /\ At("restart")
    /\ IF ~Valid(lmp) THEN Crash
       ELSE /\ \E has_angle \in BOOLEAN, writedata \in BOOLEAN :
                 /\ cmds' = cmds \o RestartCmds(test_config, has_angle,
                                                writedata)
                 /\ hist' = [hist EXCEPT
                        !.struct_checked = FALSE,
                        !.read = @ \cup {"restart"},
                        !.calls = Append(@, Cur.line),
                        !.loads = @ \o Loads(ReadBy(RestartCmds(test_config,
                                      has_angle, writedata)), lmp, files,
                                      hist.origin),
                        !.epoch = @ + 1,
                        !.restored = << has_angle, writedata >>]
            /\ eng' = Engine(build, "restart")
            /\ pc' = pc + 1
            /\ UNCHANGED << yaml, test_config, build, test, lmp, nlocal, alive,
                            next_id, files, compared, failed, skipped,
                            outcome >>

\* a data_lammps that consumes the post_commands of the config it is given
DataLammps_consuming ==
    /\ UNCHANGED << fp, lib, rd >>
    /\ At("data")
    /\ IF ~Valid(lmp) THEN Crash
       ELSE /\ cmds' = cmds \o DataCmds(test_config)
            /\ eng' = Engine(build, "data")
            /\ test_config' = [test_config EXCEPT !.post_commands = << >>]
            /\ hist' = [hist EXCEPT !.struct_checked = FALSE,
                                    !.read = @ \cup {"data"},
                                    !.loads = @ \o Loads(ReadBy(DataCmds(
                                       test_config)), lmp, files, hist.origin),
                                    !.epoch = @ + 1,
                                    !.calls = Append(@, Cur.line)]
            /\ pc' = pc + 1
            /\ UNCHANGED << yaml, build, test, lmp, nlocal, alive,
                            next_id, files, compared, failed, skipped,
                            outcome >>

\* data_lammps(lmp, test_config);
DataLammps ==
    /\ UNCHANGED << fp, lib, rd >>
    /\ At("data")
    /\ IF ~Valid(lmp) THEN Crash
       ELSE /\ cmds' = cmds \o DataCmds(test_config)
            /\ eng' = Engine(build, "data")
            /\ hist' = [hist EXCEPT !.struct_checked = FALSE,
                                    !.read = @ \cup {"data"},
                                    !.loads = @ \o Loads(ReadBy(DataCmds(
                                       test_config)), lmp, files, hist.origin),
                                    !.epoch = @ + 1,
                                    !.calls = Append(@, Cur.line)]
            /\ pc' = pc + 1
            /\ UNCHANGED << yaml, test_config, build, test, lmp, nlocal, alive,
                            next_id, files, compared, failed, skipped,
                            outcome >>

\* the test case body has returned and its outcome is not yet recorded
TestEnded == test \in 1..Len(TestCases) /\ pc = End(test)

\* the outcome of a test case whose body returned
Outcome(skip, fail) == IF skip THEN "skip" ELSE IF fail THEN "fail" ELSE "pass"

\* the runner records the outcome and starts the next test case
EndTest ==
    /\ UNCHANGED << fp, lib, rd >>
    /\ TestEnded
    /\ outcome' = [outcome EXCEPT ![test] = Outcome(skipped, failed)]
    /\ test' = test + 1
    /\ pc' = 1
    /\ lmp' = NULL
    /\ nlocal' = 0
    /\ eng' = NoEngine
    /\ cmds' = << >>
    /\ compared' = << >>
    /\ failed' = FALSE
    /\ skipped' = FALSE
    /\ hist' = NoHist
    /\ UNCHANGED << yaml, test_config, build, alive, next_id, files >>

\* generate_yaml_file: if (!lmp) { std::cerr << ...; return; }
GenNullCheck ==
    /\ UNCHANGED << fp, lib, rd >>
    /\ At("gen_null_check")
    /\ pc' = AfterNullCheck(lmp, pc + 1, End(test))
    /\ hist' = [hist EXCEPT !.checked = TRUE]
    /\ UNCHANGED << yaml, test_config, build, test, lmp, nlocal, alive, eng,
                    next_id, files, cmds, compared, failed, skipped, outcome >>

\* ---- numbers as text

RECURSIVE Pow10(_)
Pow10(k) == IF k = 0 THEN 1 ELSE 10 * Pow10(k - 1)

\* the decimal digits of a natural number, most significant first
RECURSIVE Digits(_)
Digits(n) == IF n < 10 THEN << n >> ELSE Append(Digits(n \div 10), n % 10)

\* strtol / atoi of a digit string
RECURSIVE DigVal(_)
DigVal(d) ==
    IF d = << >> THEN 0
    ELSE 10 * DigVal(SubSeq(d, 1, Len(d) - 1)) + d[Len(d)]

Abs(v) == IF v < 0 THEN 0 - v ELSE v

\* printf("% .<prec>e", v): sign, a mantissa of prec+1 significant digits,
\* rounded, and the decimal exponent; the trailing zeros printf pads the
\* mantissa with are left out
FmtE(v, prec) ==
    LET len == Len(Digits(Abs(v)))
        cut == IF len > prec + 1 THEN len - (prec + 1) ELSE 0
        m == (Abs(v) + (Pow10(cut) \div 2)) \div Pow10(cut)
    IN  [neg |-> v < 0, mant |-> Digits(m),
         exp |-> cut + Len(Digits(m)) - 1]

\* the digits after the decimal point in "% 23.16e"
SnprintfPrec == 16

\* ---- what the generator reads from the engine

\* the quantities of the engine state, as whole numbers of some unit:
\* angle->energy (k = 1), angle->virial[k-1], atom->f[i][k-1] of the atom
\* with tag id; they differ between the state after init and after the run
Live(path, qty, id, k) ==
    LET q == IF qty = "energy" THEN 1 ELSE IF qty = "stress" THEN 2 ELSE 3
        a == (IF path = "run" THEN 1000 ELSE 0) + 100 * q + 10 * id + k
    IN  IF k % 2 = 0 THEN 0 - a ELSE a

\* atom->tag[0..nlocal-1]: the ids of the local atoms in storage order
TagOrders(n) == { [i \in 1..n |-> i], [i \in 1..n |-> n + 1 - i] }

\* snprintf(buf,bufsize,"% 3d % 23.16e % 23.16e % 23.16e\n",
\*          (int)tag[i], f[i][0], f[i][1], f[i][2]);
\* for i < natoms; a slot past the local atoms holds an id g and values
\* that belong to no local atom
ForceLine(e, tag, i, g) ==
    IF i <= e.nlocal
    THEN << Digits(tag[i]),
            FmtE(Live(e.path, "forces", tag[i], 1), SnprintfPrec),
            FmtE(Live(e.path, "forces", tag[i], 2), SnprintfPrec),
            FmtE(Live(e.path, "forces", tag[i], 3), SnprintfPrec) >>
    ELSE << Digits(g), FmtE(0, SnprintfPrec), FmtE(0, SnprintfPrec),
            FmtE(0, SnprintfPrec) >>

\* YamlWriter::emit(tag, double): the digits it writes
YamlPrec == 15
YamlDouble(v) == FmtE(v, YamlPrec)

IsForceTag(tag) == tag \in {"init_forces", "run_forces"}

\* for (int i=0; i < natoms; ++i): the slots of f and tag the loop of a
\* force block reads, counted from 1
SlotsRead(tag, e) == IF IsForceTag(tag) THEN 1..e.natoms ELSE {}

\* what ctime returns, as its characters: the date and a newline
Timestamps ==
    {
      << "W", "e", "d", " ", "N", "o", "v", " ", " ", "4", " ", "1", "6",
         ":", "5", "5", ":", "0", "0", " ", "2", "0", "2", "6", "\n" >>,
      << "T", "h", "u", " ", "D", "e", "c", " ", "3", "1", " ", "2", "3",
         ":", "5", "9", ":", "5", "9", " ", "2", "0", "2", "0", "\n" >>
    }

\* std::string::find(c): the position of the first c, counted from 0, or
\* npos, written -1 here, when there is none
Find(s, c) ==
    LET at == {i \in DOMAIN s : s[i] = c}
    IN  IF at = {} THEN -1 ELSE (CHOOSE i \in at : \A j \in at : i <= j) - 1

\* std::string::substr(0, n) for n = pos - 1 in size_t arithmetic: for
\* pos = 0 and for pos = npos the count is past the end of every string
SubstrBefore(s, pos) ==
    IF pos <= 0 THEN s
    ELSE SubSeq(s, 1, IF pos - 1 < Len(s) THEN pos - 1 ELSE Len(s))

\* block = ctime(&now); block = block.substr(0,block.find("\n")-1);
DateGenerated(now) == SubstrBefore(now, Find(now, "\n"))

\* the lines generate_yaml_file hands to the writer for a tag, each line a
\* tuple of tokens
EmitText(tag, cfg, e, order, g, now) ==
    CASE tag = "lammps_version" -> << << "version" >> >>
      [] tag = "date_generated" -> << << DateGenerated(now) >> >>
      [] tag = "epsilon" -> << << YamlDouble(cfg.epsilon) >> >>
      [] tag = "prerequisites" ->
            [i \in DOMAIN cfg.prerequisites |->
                << cfg.prerequisites[i][1], cfg.prerequisites[i][2] >>]
      [] tag = "pre_commands" ->
            [i \in DOMAIN cfg.pre_commands |-> << cfg.pre_commands[i] >>]
      [] tag = "post_commands" ->
            [i \in DOMAIN cfg.post_commands |-> << cfg.post_commands[i] >>]
      [] tag = "input_file" -> << << cfg.input_file >> >>
      [] tag = "angle_style" -> << << cfg.angle_style >> >>
      [] tag = "angle_coeff" ->
            [i \in DOMAIN cfg.angle_coeff |-> << cfg.angle_coeff[i] >>]
      [] tag = "extract" -> << >>
      [] tag = "natoms" -> << << Digits(e.natoms) >> >>
      [] tag \in {"init_energy", "run_energy"} ->
            << << YamlDouble(Live(e.path, "energy", 0, 1)) >> >>
      [] tag \in {"init_stress", "run_stress"} ->
            << [k \in 1..6 |->
                  FmtE(Live(e.path, "stress", 0, k), SnprintfPrec)] >>
      [] IsForceTag(tag) ->
            [i \in SlotsRead(tag, e) |-> ForceLine(e, order, i, g)]

\* generate_yaml_file: writer.emit(tag, value) / writer.emit_block(tag, block);
\* the value is read from the config or from the engine state lmp points to.
\* The force loops run over natoms slots of the per-local-atom arrays: with
\* fewer local atoms the last reads are outside the local atoms, and the
\* process may end or go on with what it found there
Emit ==
    /\ UNCHANGED << fp, lib, rd >>
    /\ At("emit")
    /\ IF ~Valid(lmp) THEN Crash
       ELSE \/ /\ \E order \in (IF IsForceTag(Cur.ref)
                                 THEN TagOrders(eng.natoms)
                                 ELSE {<< >>}),
                      g \in (IF IsForceTag(Cur.ref)
                                /\ eng.nlocal < eng.natoms
                             THEN 1..eng.natoms ELSE {0}),
                      now \in (IF Cur.ref = "date_generated"
                               THEN Timestamps ELSE {<< >>}) :
                     yaml' = Append(yaml,
                        [tag |-> Cur.ref, from |-> eng.path,
                         line |-> Cur.line,
                         slots |-> SlotsRead(Cur.ref, eng),
                         text |-> EmitText(Cur.ref, test_config, eng,
                                           order, g, now)])
               /\ pc' = pc + 1
               /\ UNCHANGED << test_config, build, test, lmp, nlocal, alive,
                               eng, next_id, files, cmds, compared, failed,
                               skipped, outcome, hist >>
            \/ /\ IsForceTag(Cur.ref) /\ eng.nlocal < eng.natoms
               /\ Crash

\* ---- reading the file back

\* strtod of a number written in scientific notation
ParseE(t) ==
    LET v == DigVal(t.mant) * Pow10(t.exp + 1 - Len(t.mant))
    IN  IF t.neg THEN 0 - v ELSE v

\* the lines of the last entry of the file with this tag; none: no lines
EntryText(y, tag) ==
    LET at == {i \in DOMAIN y : y[i].tag = tag}
    IN  IF at = {} THEN << >>
        ELSE y[CHOOSE i \in at : \A j \in at : j <= i].text

\* a force block read into a vector of natoms+1 slots: the line "id x y z"
\* sets slot id, a later line for the same id replaces an earlier one
ReadForces(lines, natoms) ==
    [id \in 0..natoms |->
        LET at == {i \in DOMAIN lines : DigVal(lines[i][1]) = id}
        IN  IF at = {} THEN << 0, 0, 0 >>
            ELSE LET l == lines[CHOOSE i \in at : \A j \in at : j <= i]
                 IN  << ParseE(l[2]), ParseE(l[3]), ParseE(l[4]) >>]

\* reader.parse_file(infile), called by read_yaml_file: the TestConfig the
\* reader builds from the entries
parse_file(y) ==
    LET natoms == DigVal(EntryText(y, "natoms")[1][1])
        lines(tag) == EntryText(y, tag)
    IN  [epsilon |-> ParseE(lines("epsilon")[1][1]),
         input_file |-> lines("input_file")[1][1],
         angle_style |-> lines("angle_style")[1][1],
         prerequisites |->
             [i \in DOMAIN lines("prerequisites") |->
                 << lines("prerequisites")[i][1],
                    lines("prerequisites")[i][2] >>],
         pre_commands |->
             [i \in DOMAIN lines("pre_commands") |->
                 lines("pre_commands")[i][1]],
         post_commands |->
             [i \in DOMAIN lines("post_commands") |->
                 lines("post_commands")[i][1]],
         angle_coeff |->
             [i \in DOMAIN lines("angle_coeff") |->
                 lines("angle_coeff")[i][1]],
         natoms |-> natoms,
         init_forces |-> ReadForces(lines("init_forces"), natoms),
         run_forces |-> ReadForces(lines("run_forces"), natoms)]

\* ---- one value comparison

\* a nonnegative value, as hi * 10^7 + lo units of 1e-13
Limb == Pow10(7)
FpNum(hi, lo) == [hi |-> hi, lo |-> lo]
FpLeq(a, b) == a.hi < b.hi \/ (a.hi = b.hi /\ a.lo <= b.lo)
FpAdd(a, b) ==
    FpNum(a.hi + b.hi + (a.lo + b.lo) \div Limb, (a.lo + b.lo) % Limb)
FpAbsDiff(a, b) ==
    LET x == IF FpLeq(b, a) THEN a ELSE b
        y == IF FpLeq(b, a) THEN b ELSE a
    IN  IF x.lo >= y.lo THEN FpNum(x.hi - y.hi, x.lo - y.lo)
        ELSE FpNum(x.hi - y.hi - 1, x.lo + Limb - y.lo)
FpOne == FpNum(Pow10(6), 0)

\* epsilon * m, rounded down, for an epsilon of n units of 1e-9
FpTol(n, m) ==
    LET x == (m.hi * n + (m.lo * n) \div Limb) \div 100
    IN  FpNum(x \div Limb, x % Limb)

\* a comparison relative to |expected| alone
ExpectFpLe_relative(live, expected, n) ==
    FpLeq(FpAbsDiff(live, expected), FpTol(n, expected))

\* EXPECT_FP_LE_WITH_EPS(live, expected, epsilon):
\* |live - expected| <= epsilon * max(1, |expected|)
ExpectFpLe(live, expected, n) ==
    FpLeq(FpAbsDiff(live, expected),
          FpTol(n, IF FpLeq(FpOne, expected) THEN expected ELSE FpOne))

\* reference values: 12.345678901234, 0.5, 0, 1, 10
FpExpected ==
    { FpNum(12345678, 9012340), FpNum(500000, 0), FpNum(0, 0),
      FpNum(1000000, 0), FpNum(10000000, 0) }

\* deviations of the live value from the reference value
FpDeltas ==
    { FpNum(0, 0), FpNum(0, 750000), FpNum(0, 1000000), FpNum(0, 1000001),
      FpNum(0, 9000000), FpNum(1, 2345678), FpNum(1, 2345679),
      FpNum(101, 0) }

\* the state of the test program when it does not run
Idle ==
    /\ test_config = [epsilon |-> 100, input_file |-> "input_file",
                      prerequisites |-> << >>, pre_commands |-> << >>,
                      angle_style |-> << >>, angle_coeff |-> << >>,
                      post_commands |-> << >>,
                      init_forces_size |-> NAtoms + 1,
                      run_forces_size |-> NAtoms + 1]
    /\ build = [styles |-> {}, user_omp |-> FALSE, all_local |-> TRUE]
    /\ test = Len(TestCases) + 1
    /\ pc = 1
    /\ lmp = NULL
    /\ nlocal = 0
    /\ alive = {}
    /\ eng = NoEngine
    /\ next_id = 1
    /\ files = {}
    /\ cmds = << >>
    /\ compared = << >>
    /\ failed = FALSE
    /\ skipped = FALSE
    /\ outcome = [t \in 1..Len(TestCases) |-> "none"]
    /\ hist = NoHist
    /\ yaml = << >>

\* a comparison about to be made: its reference value, its live value above
\* or below it, its epsilon
InitFP ==
    /\ Idle
    /\ lib = NoLib
    /\ rd = NoRead
    /\ \E e \in FpExpected, d \in FpDeltas, up \in BOOLEAN,
          n \in EpsValues :
          /\ up \/ FpLeq(d, e)
          /\ fp = [expected |-> e,
                   live |-> IF up THEN FpAdd(e, d) ELSE FpAbsDiff(e, d),
                   eps |-> n, done |-> FALSE, accepted |-> FALSE,
                   violations |-> 0]

\* EXPECT_FP_LE_WITH_EPS(angle->energy, test_config.init_energy, epsilon);
\* a failed expectation is one recorded failure
FpCompare ==
    /\ ~fp.done
    /\ LET ok == ExpectFpLe(fp.live, fp.expected, fp.eps)
       IN  fp' = [fp EXCEPT !.done = TRUE, !.accepted = ok,
                            !.violations = IF ok THEN @ ELSE @ + 1]
    /\ UNCHANGED << progvars, lib, rd >>

NextFP == FpCompare

SpecFP == InitFP /\ [][NextFP]_vars

\* ---- the C library interface (library.h)

\* the handle locations of the calling program
HandleSlots == {1, 2}

\* a calling program that has made no library call; MPI may be up already
InitLib ==
    /\ Idle
    /\ fp = NoFP
    /\ rd = NoRead
    /\ \E mpi \in {"none", "init"} :
          lib = [handle |-> [h \in HandleSlots |-> NULL], instances |-> {},
                 closed |-> {}, mpi |-> mpi, next |-> 1, last |-> "none"]

\* an open that tears down the instances created before
Opened_single(l, slot, ok, op) ==
    [l EXCEPT !.handle[slot] = IF ok THEN l.next ELSE NULL,
              !.instances = IF ok THEN {l.next} ELSE {},
              !.next = @ + 1,
              !.last = op]

\* what an open call leaves behind: *ptr is NULL if the instance could not
\* be created, a reference to the new instance otherwise
Opened(l, slot, ok, op) ==
    [l EXCEPT !.handle[slot] = IF ok THEN l.next ELSE NULL,
              !.instances = IF ok THEN @ \cup {l.next} ELSE @,
              !.next = @ + 1,
              !.last = op]

\* void lammps_open(int argc, char **argv, MPI_Comm comm, void **ptr);
\* the caller passes a communicator, so MPI is initialized
lammps_open ==
    /\ lib.mpi = "init" /\ lib.next <= MaxOpens
    /\ \E slot \in HandleSlots, ok \in BOOLEAN :
          lib' = Opened(lib, slot, ok, IF ok THEN "open" ELSE "open_failed")
    /\ UNCHANGED << progvars, fp, rd >>

\* void lammps_open_no_mpi(int argc, char **argv, void **ptr);
\* runs MPI_Init() if it has not been called before
lammps_open_no_mpi ==
    /\ lib.mpi # "finalized" /\ lib.next <= MaxOpens
    /\ \E slot \in HandleSlots, ok \in BOOLEAN :
          lib' = [Opened(lib, slot, ok,
                         IF ok THEN "open" ELSE "open_failed")
                     EXCEPT !.mpi = "init"]
    /\ UNCHANGED << progvars, fp, rd >>

\* int lammps_version(void *ptr), standing for every call that takes a
\* handle: with a handle whose instance is gone the behaviour is undefined
lammps_version ==
    /\ \E slot \in HandleSlots :
          /\ lib.handle[slot] # NULL
          /\ lib' = [lib EXCEPT !.last =
                        IF lib.handle[slot] \in lib.instances
                        THEN "version" ELSE "undefined"]
    /\ UNCHANGED << progvars, fp, rd >>

\* a close that also shuts MPI down
Closed_finalizing(l, h) ==
    [l EXCEPT !.instances = @ \ {h}, !.closed = @ \cup {h},
              !.mpi = "finalized",
              !.last = IF h \in l.instances THEN "close" ELSE "undefined"]

\* what lammps_close leaves behind: the instance is deleted
Closed(l, h) ==
    [l EXCEPT !.instances = @ \ {h}, !.closed = @ \cup {h},
              !.last = IF h \in l.instances THEN "close" ELSE "undefined"]

\* void lammps_close(void *ptr); the caller's handle keeps its value;
\* MPI_Finalize() is not called
lammps_close ==
    /\ \E slot \in HandleSlots :
          /\ lib.handle[slot] # NULL
          /\ lib' = Closed(lib, lib.handle[slot])
    /\ UNCHANGED << progvars, fp, rd >>

\* lammps_finalize(): shuts MPI down
lammps_finalize ==
    /\ lib.mpi = "init"
    /\ lib' = [lib EXCEPT !.mpi = "finalized", !.last = "finalize"]
    /\ UNCHANGED << progvars, fp, rd >>

NextLib ==
    \/ lammps_open
    \/ lammps_open_no_mpi
    \/ lammps_version
    \/ lammps_close
    \/ lammps_finalize

SpecLib == InitLib /\ [][NextLib]_vars

\* YamlWriter writer(outfile); the writer creates the output file
OpenWriter ==
    /\ UNCHANGED << fp, lib, rd >>
    /\ At("open_writer")
    /\ hist' = [hist EXCEPT !.outfile = "created"]
    /\ pc' = pc + 1
    /\ UNCHANGED << yaml, test_config, build, test, lmp, nlocal, alive, eng,
                    next_id, files, cmds, compared, failed, skipped,
                    outcome >>

\* ---- reading a reference file

\* the results of TestConfigReader::parse_file; zero: the file was parsed
ParseResults == {-2, -1, 0, 1, 2}

\* base names: of the file the reader has parsed, of a config before the call
BaseNames == {"", "angle-zero", "angle-harmonic", "angle-hybrid"}

\* a read_yaml_file that sets the base name whatever parse_file returned
read_yaml_file_always(rc, reader, basename) ==
    [returned |-> IF rc # 0 THEN "false" ELSE "true", basename |-> reader]

\* bool read_yaml_file(const char *infile, TestConfig &config): what it
\* returns and config.basename after the call; rc is the result of
\* reader.parse_file(infile), reader the value of reader.get_basename()
read_yaml_file(rc, reader, basename) ==
    IF rc # 0 THEN [returned |-> "false", basename |-> basename]
    ELSE [returned |-> "true", basename |-> reader]

\* a config and a file to read into it
InitRead ==
    /\ Idle
    /\ fp = NoFP
    /\ lib = NoLib
    /\ \E rc \in ParseResults, reader \in BaseNames \ {""},
          before \in BaseNames :
          rd = [rc |-> rc, reader |-> reader, before |-> before,
                basename |-> before, returned |-> "none"]

\* read_yaml_file(infile, config)
ReadYaml ==
    /\ rd.returned = "none"
    /\ LET r == read_yaml_file(rd.rc, rd.reader, rd.basename)
       IN  rd' = [rd EXCEPT !.returned = r.returned,
                            !.basename = r.basename]
    /\ UNCHANGED << progvars, fp, lib >>

NextRead == ReadYaml

SpecRead == InitRead /\ [][NextRead]_vars

\* generate_yaml_file has returned
GenEnded == test = GENERATE /\ pc = End(GENERATE)

\* the process ends after generate_yaml_file
EndGenerate ==
    /\ UNCHANGED << fp, lib, rd >>
    /\ GenEnded
    /\ test' = Len(TestCases) + 1
    /\ pc' = 1
    /\ UNCHANGED << yaml, test_config, build, lmp, nlocal, alive, eng,
                    next_id, files, cmds, compared, failed, skipped,
                    outcome, hist >>

Next ==
    \/ PkgCheck
    \/ InitLammps
    \/ NullCheck
    \/ ExpectOutput
    \/ AssertNatoms
    \/ Fetch
    \/ StatsReset
    \/ AssertSize
    \/ Compare
    \/ CompareNonHybrid
    \/ RunLammps
    \/ CleanupLammps
    \/ RestartLammps
    \/ DataLammps
    \/ EndTest
    \/ GenNullCheck
    \/ OpenWriter
    \/ Emit
    \/ EndGenerate

Spec == Init /\ [][Next]_vars

\* ---------------------------------------------------------- properties

\* a prerequisite of the config is unavailable to test case t: the build's
\* style table lacks it, looked up with the suffix omp for an angle style in
\* the omp test case
Unmet(t) ==
    \E i \in DOMAIN test_config.prerequisites :
        LET p == test_config.prerequisites[i]
        IN  << p[1], p[2],
               IF p[1] = "angle" /\ t # GENERATE /\ TestCases[t] = "omp"
               THEN "omp" ELSE "" >>
                \notin build.styles

\* the step the running test case executed last
JustDid(op) == Running /\ pc > 1 /\ Program(test)[pc - 1].op = op

Lines(s) == [i \in DOMAIN s |-> s[i].line]

IsDriverStep(st) == st.op \in {"init", "run", "cleanup", "restart", "data"}

IsCompareStep(st) ==
    \/ st.op = "compare"
    \/ st.op = "compare_nonhybrid" /\ ~IsHybrid(test_config.angle_style)

\* C1: init_lammps returns NULL exactly when a prerequisite of the config is
\* unavailable; when it returns NULL it has issued no engine command and has
\* written no restart, data or coeff file.
C1_InitSentinel ==
    [][At("init") =>
         /\ (lmp' = NULL) <=> Unmet(test)
         /\ lmp' = NULL =>
              /\ cmds' = cmds
              /\ hist'.written = hist.written
              /\ files' \subseteq files]_vars

\* init_lammps has just returned NULL for an unavailable prerequisite
C1_Witness ==
    JustDid("init") /\ lmp = NULL /\ Unmet(test) /\ cmds = << >>

\* C2: with an unmet prerequisite a test case ends with the outcome skip and
\* has written and read no restart, data or coeff file; the omp test case
\* also ends with skip, having constructed no engine, when USER-OMP is not
\* installed.
C2_UnmetSkips ==
    /\ TestEnded /\ Unmet(test) =>
         /\ Outcome(skipped, failed) = "skip"
         /\ ~failed
         /\ hist.written = {}
         /\ hist.read = {}
    /\ TestEnded /\ TestCases[test] = "omp" /\ ~build.user_omp =>
         /\ Outcome(skipped, failed) = "skip"
         /\ hist.created = {}

\* a test case that constructed an engine ended in skip for a prerequisite
C2_Witness ==
    TestEnded /\ Unmet(test) /\ skipped /\ hist.created # {}

\* C3: whenever the test case is about to dereference lmp, the result of
\* the last init_lammps call has been checked against NULL.
C3_CheckedBeforeDeref ==
    Running /\ Cur.op \in {"assert_natoms", "fetch", "compare",
                            "compare_nonhybrid", "run", "restart", "data"}
        => hist.checked

\* C4: when a test case has ended, every engine instance it created has
\* been destroyed and, if it created one, the three files are removed.
C4_TeardownOnEveryPath ==
    TestEnded =>
        /\ hist.created \cap alive = {}
        /\ hist.created # {} => files = {}

\* C5: at every point of a test case's execution at most one engine
\* instance is alive.
C5_AtMostOneAlive == Cardinality(alive) <= 1

\* C6: before a value comparison is executed, natoms == nlocal has been
\* checked on the engine state the last path (fresh-init, restart-reload,
\* geometry-file-reload) produced.
C6_StructCheckedPerPath ==
    Running /\ Cur.op \in {"compare", "compare_nonhybrid"}
        => hist.struct_checked

\* C7: if natoms != nlocal after the first fresh-init, the test case
\* executes no value comparison and ends with the outcome fail.
C7_StructuralMismatchFatal ==
    test \in 1..Len(TestCases) /\ eng.natoms # eng.nlocal =>
        /\ compared = << >>
        /\ TestEnded => Outcome(skipped, failed) = "fail"

\* a test case ended on natoms != nlocal
C7_Witness ==
    TestEnded /\ eng.path = "init" /\ eng.natoms # eng.nlocal /\ hist.fatal

\* C8: a tolerance violation does not change what the test case does
\* afterwards: a test case with a violation and no failed fatal check has,
\* when it ends, made every driver call and every comparison of its body,
\* teardown has run, and its outcome is fail.
C8_ViolationDoesNotStop ==
    TestEnded /\ hist.violated =>
        /\ Outcome(skipped, failed) = "fail"
        /\ ~hist.fatal =>
             /\ hist.calls = Lines(SelectSeq(Program(test), IsDriverStep))
             /\ Lines(compared) = Lines(SelectSeq(Program(test), IsCompareStep))
             /\ hist.created \cap alive = {}
             /\ files = {}

\* a test case with a tolerance violation in its first comparison ran to
\* its last statement
C8_Witness ==
    /\ TestEnded /\ hist.violated /\ ~hist.fatal
    /\ Len(compared) > 1
    /\ Program(test)[pc - 1].op = "cleanup"

\* C9: whenever a comparison indexes init_forces or run_forces, an earlier
\* fatal check of the test case has established that the vector has
\* nlocal+1 entries.
C9_SizeCheckedBeforeIndex ==
    Running /\ Cur.op = "compare" /\ Cur.ref \in {"init_forces", "run_forces"}
        => Cur.ref \in hist.size_checked

\* C10: every comparison of the flag-off pass has a comparison of the
\* flag-on pass of the same quantity against the same reference at the same
\* multiple of epsilon.
C10_FlagInvariantTolerance ==
    \A j \in DOMAIN compared :
        compared[j].path \in {"init", "run"} /\ ~compared[j].newton =>
            \E i \in DOMAIN compared :
                /\ compared[i].newton
                /\ compared[i].path = compared[j].path
                /\ compared[i].qty = compared[j].qty
                /\ compared[i].ref = compared[j].ref
                /\ compared[i].mult = compared[j].mult

\* double epsilon = test_config.epsilon;  (plain)
\* double epsilon = 5.0*test_config.epsilon;  (omp)
\* the base tolerance of a test case, in units of test_config.epsilon
BaseTol(t) == IF TestCases[t] = "omp" THEN 5 ELSE 1

\* the comparisons the running test case has made after a short run
RunCompared(ref) ==
    {i \in DOMAIN compared : compared[i].path = "run" /\ compared[i].ref = ref}

\* C11: in both test cases the forces after the short run are compared with
\* run_forces at 10 times the base tolerance of the test case, and the stress
\* after the short run is compared with run_stress at exactly the base
\* tolerance of the test case.
C11_RunTolerances ==
    test \in DOMAIN TestCases =>
        /\ \A i \in RunCompared("run_forces") :
               compared[i].mult = 10 * BaseTol(test)
        /\ \A i \in RunCompared("run_stress") :
               compared[i].mult = BaseTol(test)

ReloadPaths == {"restart", "data"}

Quantities == {"forces", "stress", "energy"}

\* the init_* reference value of a quantity
InitRef(qty) ==
    IF qty = "forces" THEN "init_forces"
    ELSE IF qty = "stress" THEN "init_stress" ELSE "init_energy"

\* the test case has compared quantity qty of path `path`
HasCompared(path, qty) ==
    \E i \in DOMAIN compared :
        compared[i].path = path /\ compared[i].qty = qty

\* C12: every comparison made after restart_lammps or data_lammps is against
\* the init_* value of its quantity, never a run_* value, at exactly the base
\* tolerance of the test case; a test case that reaches its last teardown
\* after a reload has compared forces, stress and energy of that reload.
C12_ReloadAgainstInit ==
    test \in DOMAIN TestCases =>
        /\ \A i \in DOMAIN compared :
               compared[i].path \in ReloadPaths =>
                   /\ compared[i].ref = InitRef(compared[i].qty)
                   /\ compared[i].mult = BaseTol(test)
        /\ \A path \in ReloadPaths :
               (TestEnded /\ ~hist.fatal /\ path \in hist.read) =>
                   \A qty \in Quantities : HasCompared(path, qty)

\* a test case has ended after comparing the energy of the data reload
C12_Witness ==
    /\ TestEnded /\ ~hist.fatal
    /\ ReloadPaths \subseteq hist.read
    /\ HasCompared("restart", "forces") /\ HasCompared("data", "energy")

Paths == {"init", "run", "restart", "data"}

\* C13: in each of the two test cases, plain and omp, a test case whose
\* prerequisites are met has, when its body returns, run the paths fresh
\* init, short run, restart reload and data file reload and compared forces,
\* stress and energy of each of them.  Read for the test cases that no
\* failed fatal assertion ended early.
C13_AllPathsInBothModes ==
    (TestEnded /\ ~skipped /\ ~hist.fatal) =>
        \A path \in Paths : \A qty \in Quantities : HasCompared(path, qty)

\* the style name begins with the six characters hybrid
BeginsWithHybrid(style) ==
    /\ Len(style) >= 6
    /\ style[1] = "h" /\ style[2] = "y" /\ style[3] = "b"
    /\ style[4] = "r" /\ style[5] = "i" /\ style[6] = "d"

\* the number of run_lammps calls the running test case has made
RunCalls ==
    Cardinality({i \in DOMAIN hist.calls :
        \E k \in DOMAIN Program(test) :
            /\ Program(test)[k].op = "run"
            /\ Program(test)[k].line = hist.calls[i]})

\* the comparisons of the style energy with the compute sum made so far
SumCompared == {i \in DOMAIN compared : compared[i].ref = "c_sum"}

\* the test case is about to make the driver call that follows a short run
AfterShortRun ==
    /\ test \in DOMAIN TestCases
    /\ Running /\ IsDriverStep(Cur)
    /\ Valid(lmp) /\ eng.path = "run"

\* C14: when a test case leaves a short run, it has compared the style
\* energy with the compute sum once for every short run so far, each time at
\* the base tolerance of the test case, unless the test case is omp and the
\* style name begins with hybrid: then it has made no such comparison.  In
\* plain the comparison is made for hybrid styles too.
C14_EnergyCrossCheck ==
    AfterShortRun =>
        /\ \A i \in SumCompared :
               /\ compared[i].path = "run" /\ compared[i].qty = "energy"
               /\ compared[i].mult = BaseTol(test)
        /\ Cardinality(SumCompared) =
               IF TestCases[test] = "omp"
                  /\ BeginsWithHybrid(test_config.angle_style)
               THEN 0 ELSE RunCalls

\* omp leaves its second short run with a hybrid style
C14_Witness ==
    /\ AfterShortRun /\ TestCases[test] = "omp"
    /\ BeginsWithHybrid(test_config.angle_style)
    /\ RunCalls > 1 /\ SumCompared = {}

\* plain leaves its second short run with a hybrid style
C14_WitnessPlain ==
    /\ AfterShortRun /\ TestCases[test] = "plain"
    /\ BeginsWithHybrid(test_config.angle_style)
    /\ Cardinality(SumCompared) > 1

\* the commands of kind c among the commands a step has added to cmds
Issued(c, before, after) ==
    {i \in (Len(before) + 1)..Len(after) : after[i].cmd = c}

\* C15: restart_lammps, after clear and read_restart, issues the angle_style
\* command and the angle_coeff commands, both, exactly when the snapshot
\* restored no style or the style is hybrid, and neither of them otherwise;
\* the post_commands and run 0 post no are always issued after them.
C15_RestartReissue ==
    [][(At("restart") /\ Valid(lmp)) =>
         LET reissue == \/ ~hist'.restored[1]
                        \/ BeginsWithHybrid(test_config.angle_style)
             n == Len(cmds')
             npost == Len(test_config.post_commands)
         IN  /\ Cardinality(Issued("angle_style", cmds, cmds')) =
                    IF reissue THEN 1 ELSE 0
             /\ Cardinality(Issued("angle_coeff", cmds, cmds')) =
                    IF reissue THEN Len(test_config.angle_coeff) ELSE 0
             /\ cmds'[n] = Cmd("run", "0 post no", 0)
             /\ SubSeq(cmds', n - npost, n - 1) = test_config.post_commands
    ]_vars

\* C16: no step of the generator or of a test case, and so none of the
\* driver functions they call, changes a field of the config read_yaml_file
\* populated.
C16_ConfigImmutable == [][test_config' = test_config]_vars

\* a test case has run every driver function on a config with commands
C16_Witness ==
    /\ TestEnded /\ ~hist.fatal
    /\ ReloadPaths \subseteq hist.read
    /\ test_config.post_commands # << >>
    /\ Program(test)[pc - 1].op = "cleanup"

\* the step at pc makes comparisons
AtComparison == Running /\ test \in DOMAIN TestCases /\ IsCompareStep(Cur)

\* C17: when a test case is about to make the comparisons of a block
\* (forces, stress or energy of one path and newton_bond setting), the
\* ErrorStats accumulator has been reset and holds comparisons of no other
\* block: the statistics of a block count that block only.
C17_ResetBeforeBlock ==
    AtComparison =>
        /\ hist.stats_reset
        /\ hist.stats_blocks \subseteq {Block(Cur)}

\* the second comparison of an energy block is about to be made
C17_Witness ==
    /\ AtComparison /\ Cur.ref = "c_sum"
    /\ hist.stats_blocks = {Block(Cur)}

\* the tags of the on-disk format, in its order
TagOrder ==
    << "lammps_version", "date_generated", "epsilon", "prerequisites",
       "pre_commands", "post_commands", "input_file", "angle_style",
       "angle_coeff", "extract", "natoms", "init_energy", "init_stress",
       "init_forces", "run_energy", "run_stress", "run_forces" >>

Tags(y) == [i \in DOMAIN y |-> y[i].tag]

\* generate_yaml_file has returned after a successful init_lammps
GenSucceeded == GenEnded /\ ~Unmet(GENERATE)

\* C19: what generate_yaml_file has emitted is at every point the beginning
\* of the list lammps_version, date_generated, epsilon, prerequisites,
\* pre_commands, post_commands, input_file, angle_style, angle_coeff,
\* extract, natoms, init_energy, init_stress, init_forces, run_energy,
\* run_stress, run_forces, and on a successful run it is the whole list when
\* the generator returns: every tag once, in that order.
C19_EmitOrder ==
    test = GENERATE =>
        /\ Len(yaml) <= Len(TagOrder)
        /\ Tags(yaml) = SubSeq(TagOrder, 1, Len(yaml))
        /\ GenSucceeded => Len(yaml) = Len(TagOrder)

\* the generator has returned after emitting run_forces
C19_Witness ==
    /\ GenSucceeded
    /\ yaml # << >> /\ yaml[Len(yaml)].tag = "run_forces"

\* C20: when generate_yaml_file returns, after a successful run or after an
\* unmet prerequisite, no engine instance it created is alive and none of
\* the restart, data and coeff files exists.
C20_GeneratorLeavesNothing ==
    GenEnded =>
        /\ hist.created \cap alive = {}
        /\ files \cap Files = {}

\* the generator has returned after a run that created an instance and
\* wrote the three files
C20_Witness ==
    /\ GenSucceeded
    /\ hist.created # {} /\ Files \subseteq hist.written

\* the generator has returned after an unmet prerequisite
C20_WitnessUnmet == GenEnded /\ Unmet(GENERATE) /\ hist.created # {}

\* the values written on a force line
Written(l) == << ParseE(l[2]), ParseE(l[3]), ParseE(l[4]) >>

\* C21: when generate_yaml_file has succeeded, reading the file back gives
\* a config whose prerequisites, pre_commands, post_commands, input_file,
\* angle_style, angle_coeff and epsilon equal those of the input config,
\* and whose init_forces and run_forces have natoms+1 entries that hold at
\* index id the three values written on the line of particle id.
C21_RoundTrip ==
    GenSucceeded =>
        LET back == parse_file(yaml)
        IN  /\ back.prerequisites = test_config.prerequisites
            /\ back.pre_commands = test_config.pre_commands
            /\ back.post_commands = test_config.post_commands
            /\ back.input_file = test_config.input_file
            /\ back.angle_style = test_config.angle_style
            /\ back.angle_coeff = test_config.angle_coeff
            /\ back.epsilon = test_config.epsilon
            /\ \A tag \in {"init_forces", "run_forces"} :
                   /\ DOMAIN back[tag] = 0..back.natoms
                   /\ \A i \in DOMAIN EntryText(yaml, tag) :
                          LET l == EntryText(yaml, tag)[i]
                          IN  back[tag][DigVal(l[1])] = Written(l)

\* the round trip when every atom is local to the generating process: the
\* authored fields come back, and slot id of the force vectors holds the
\* forces the engine had for the atom with that id
RoundTripAllLocal ==
    (GenSucceeded /\ build.all_local) =>
        LET back == parse_file(yaml)
        IN  /\ back.prerequisites = test_config.prerequisites
            /\ back.pre_commands = test_config.pre_commands
            /\ back.post_commands = test_config.post_commands
            /\ back.input_file = test_config.input_file
            /\ back.angle_style = test_config.angle_style
            /\ back.angle_coeff = test_config.angle_coeff
            /\ back.epsilon = test_config.epsilon
            /\ back.natoms = NAtoms
            /\ \A id \in 1..NAtoms :
                   /\ back.init_forces[id] =
                         [k \in 1..3 |-> Live("init", "forces", id, k)]
                   /\ back.run_forces[id] =
                         [k \in 1..3 |-> Live("run", "forces", id, k)]

\* |live - expected| in units of 1e-13
FpDeviation ==
    Abs((fp.live.hi - fp.expected.hi) * Limb + (fp.live.lo - fp.expected.lo))

\* the largest whole number of units of 1e-13 that is at most
\* epsilon * max(1, |expected|)
FpBound ==
    LET m == IF fp.expected.hi >= Pow10(6) THEN fp.expected ELSE FpOne
    IN  (fp.eps * m.hi + (fp.eps * m.lo) \div Limb) \div 100

\* C22: a comparison accepts the live value exactly when
\* |live - expected| <= epsilon * max(1, |expected|); with epsilon 1e-7 and
\* expected 12.345678901234 it accepts 12.345678001234 and rejects
\* 12.345779901234, and a rejection is one violation.
C22_ToleranceRule ==
    fp.done =>
        /\ fp.accepted <=> FpDeviation <= FpBound
        /\ fp.violations = IF fp.accepted THEN 0 ELSE 1
        /\ (fp.eps = 100 /\ fp.expected = FpNum(12345678, 9012340)) =>
              /\ fp.live = FpNum(12345678, 12340) => fp.accepted
              /\ fp.live = FpNum(12345779, 9012340) =>
                    ~fp.accepted /\ fp.violations = 1

\* the comparison of the example has rejected 12.345779901234
C22_Witness ==
    /\ fp.done /\ fp.eps = 100
    /\ fp.expected = FpNum(12345678, 9012340)
    /\ fp.live = FpNum(12345779, 9012340)
    /\ ~fp.accepted

\* the comparison of the example has accepted 12.345678001234
C22_WitnessAccept ==
    /\ fp.done /\ fp.eps = 100
    /\ fp.expected = FpNum(12345678, 9012340)
    /\ fp.live = FpNum(12345678, 12340)
    /\ fp.accepted

\* the handle location an open call has written to
Stored == {s \in HandleSlots : lib'.handle[s] # lib.handle[s]}

\* C23: lammps_open and lammps_open_no_mpi store NULL in the caller's
\* handle location when the instance could not be created and a reference
\* to the new, live instance otherwise; a call with a non-NULL handle has
\* defined behaviour unless lammps_close was called on that handle before;
\* lammps_close leaves MPI as it was.
C23_HandleLifecycle ==
    [][/\ lib'.last = "open_failed" /\ lib'.next # lib.next =>
            /\ \E s \in HandleSlots :
                   /\ lib'.handle[s] = NULL
                   /\ \A t \in HandleSlots \ {s} :
                          lib'.handle[t] = lib.handle[t]
            /\ lib'.instances = lib.instances
       /\ lib'.last = "open" /\ lib'.next # lib.next =>
            \E s \in HandleSlots :
                /\ lib'.handle[s] \in lib'.instances \ lib.instances
                /\ lib'.handle[s] # NULL
       /\ \A s \in HandleSlots :
            (lib'.handle[s] # NULL /\ lib'.handle[s] \notin lib'.closed) =>
                lib'.handle[s] \in lib'.instances
       /\ lib'.last = "undefined" =>
            \E s \in HandleSlots : lib.handle[s] \in lib.closed
       /\ lib'.closed # lib.closed => lib'.mpi = lib.mpi
    ]_vars

\* a caller holds two handles, has closed one and used the other, MPI is up
C23_Witness ==
    /\ lib.handle # << >>
    /\ \E s, t \in HandleSlots :
          /\ lib.handle[s] \in lib.closed
          /\ lib.handle[t] \in lib.instances
    /\ lib.last = "version" /\ lib.mpi = "init"

\* the commands a step has added to cmds
Added(before, after) == SubSeq(after, Len(before) + 1, Len(after))

StyleAfter(c, set, var, snap) ==
    CASE c.cmd = "clear" -> FALSE
      [] c.cmd = "angle_style" -> TRUE
      [] c.cmd = "read_restart" -> set \/ snap
      [] c.cmd = "file" -> set \/ var
      [] OTHER -> set

\* the variable angle_style after a command; clear keeps the variables
VarAfter(c, var) ==
    CASE c.cmd = "variable angle_style index" -> TRUE
      [] c.cmd = "variable angle_style" /\ c.arg = "delete" -> FALSE
      [] OTHER -> var

\* every angle_coeff of seg meets an engine whose style is set
RECURSIVE CoeffsApplicable(_, _, _, _)
CoeffsApplicable(seg, set, var, snap) ==
    IF seg = << >> THEN TRUE
    ELSE /\ Head(seg).cmd = "angle_coeff" => set
         /\ CoeffsApplicable(Tail(seg), StyleAfter(Head(seg), set, var, snap),
                             VarAfter(Head(seg), var), snap)

\* C25: on each of the paths init_lammps, restart_lammps and data_lammps
\* every angle_coeff command reaches an engine whose style has been set
\* since the engine was constructed or last cleared, by an angle_style
\* command, by the snapshot read_restart loaded, or by the input file
\* executed with the variable angle_style defined.
C25_StyleBeforeCoeff ==
    [][/\ (At("init") /\ lmp' # NULL) =>
            CoeffsApplicable(Added(cmds, cmds'), FALSE, FALSE, FALSE)
       /\ (At("restart") /\ Valid(lmp)) =>
            CoeffsApplicable(Added(cmds, cmds'), FALSE, FALSE,
                             hist'.restored[1])
       /\ (At("data") /\ Valid(lmp)) =>
            CoeffsApplicable(Added(cmds, cmds'), FALSE, FALSE, FALSE)
    ]_vars

\* restart_lammps has issued angle_coeff after a snapshot without the style
C25_Witness ==
    /\ JustDid("restart")
    /\ hist.restored # << >> /\ ~hist.restored[1]
    /\ test_config.angle_coeff # << >>
    /\ cmds[Len(cmds) - 1 - Len(test_config.post_commands)].cmd
           = "angle_coeff"

\* data_lammps has issued angle_coeff after the input file
C25_WitnessData ==
    /\ JustDid("data")
    /\ test_config.angle_coeff # << >>
    /\ cmds[Len(cmds) - 1 - Len(test_config.post_commands)].cmd
           = "angle_coeff"

\* the positions of the commands of kind c in seg
Where(seg, c) == {i \in DOMAIN seg : seg[i].cmd = c}

\* C26: data_lammps issues clear first, defines the variables angle_style
\* (the style of the config) and data_file (the data file init_lammps
\* wrote) before the one input file it executes, then issues the
\* angle_coeffs, the post_commands and run 0 post no, in this order, as
\* its last commands; it issues neither read_restart nor angle_style.
C26_DataOrder ==
    [][(At("data") /\ Valid(lmp)) =>
         LET seg == Added(cmds, cmds')
             n == Len(seg)
             nc == Len(test_config.angle_coeff)
             nq == Len(test_config.post_commands)
             file == n - 1 - nq - nc
         IN  /\ seg[1].cmd = "clear"
             /\ Where(seg, "clear") = {1}
             /\ Where(seg, "file") = {file}
             /\ seg[file] = Cmd("file", test_config.input_file, 0)
             /\ \E i, j \in 2..(file - 1) :
                    /\ seg[i] = Cmd("variable angle_style index",
                                    "angle_style", 0)
                    /\ seg[j] = Cmd("variable data_file index", "data", 0)
             /\ SubSeq(seg, file + 1, file + nc) = test_config.angle_coeff
             /\ SubSeq(seg, file + nc + 1, n - 1) = test_config.post_commands
             /\ seg[n] = Cmd("run", "0 post no", 0)
             /\ Where(seg, "read_restart") = {}
             /\ Where(seg, "angle_style") = {}
    ]_vars

\* data_lammps has reloaded a config with commands of every kind
C26_Witness ==
    /\ JustDid("data")
    /\ eng.path = "data"
    /\ test_config.angle_coeff # << >>
    /\ test_config.post_commands # << >>
    /\ cmds[Len(cmds)] = Cmd("run", "0 post no", 0)

\* the driver functions called so far, by name, in call order
CallOps ==
    [i \in DOMAIN hist.calls |->
        (CHOOSE st \in {Program(test)[k] : k \in DOMAIN Program(test)} :
            IsDriverStep(st) /\ st.line = hist.calls[i]).op]

\* call j works on the engine state call i has produced
SameEngine(i, j) ==
    /\ i < j
    /\ \A k \in (i + 1)..(j - 1) : CallOps[k] # "init"

\* the short runs on the engine the fresh-init of call i has set up
RunsAfter(i) ==
    {j \in DOMAIN CallOps : CallOps[j] = "run" /\ SameEngine(i, j)}

\* the test case or the generator has returned
BodyEnded == TestEnded \/ GenEnded

\* run_lammps has attached fix nve, the two computes and the thermo
\* settings and then advanced the engine by 4 steps, once
RunOrder ==
    JustDid("run") =>
        LET n == Len(cmds)
        IN  /\ n >= 6
            /\ [i \in 1..6 |-> cmds[n - 6 + i].cmd] =
                   << "fix", "compute", "compute", "thermo_style",
                      "thermo", "run" >>
            /\ cmds[n - 5].arg = "1 all nve"
            /\ cmds[n - 4].arg = "pe all pe/atom"
            /\ cmds[n - 3].arg = "sum all reduce sum c_pe"
            /\ cmds[n].arg = "4 post no"

\* no short run on an engine state restart_lammps or data_lammps produced
NoRunAfterReload ==
    \A i, j \in DOMAIN CallOps :
        (CallOps[i] \in {"restart", "data"} /\ CallOps[j] = "run")
            => ~SameEngine(i, j)

\* C27: run_lammps attaches fix nve, compute pe/atom, compute reduce sum
\* and the thermo settings before it advances the engine by exactly 4
\* steps; when a test case or the generator has returned, every successful
\* fresh-init was followed by exactly one short run, and no short run was
\* made on an engine state of restart_lammps or data_lammps.
C27_ShortRun ==
    /\ RunOrder
    /\ test \in {GENERATE} \cup DOMAIN TestCases =>
          /\ NoRunAfterReload
          /\ BodyEnded /\ ~Unmet(test) =>
                \A i \in DOMAIN CallOps :
                    CallOps[i] = "init" => Cardinality(RunsAfter(i)) = 1

\* C27 (amended): as C27, but a fresh-init is followed by at most one short
\* run at every point, and by exactly one when the test case or the
\* generator has returned without a failed fatal assertion.
C27_ShortRunUnlessAborted ==
    /\ RunOrder
    /\ test \in {GENERATE} \cup DOMAIN TestCases =>
          /\ NoRunAfterReload
          /\ \A i \in DOMAIN CallOps :
                CallOps[i] = "init" => Cardinality(RunsAfter(i)) <= 1
          /\ BodyEnded /\ ~Unmet(test) /\ ~hist.fatal =>
                \A i \in DOMAIN CallOps :
                    CallOps[i] = "init" => Cardinality(RunsAfter(i)) = 1

\* plain has returned after both short runs and both reloads
C27_Witness ==
    /\ TestEnded /\ TestCases[test] = "plain" /\ ~hist.fatal
    /\ RunCalls = 2
    /\ {"restart", "data"} \subseteq hist.read

\* the generator has returned after its short run
C27_WitnessGenerate == GenSucceeded /\ RunCalls = 1

\* the calls of the driver function op made so far
CallsOf(op) == {i \in DOMAIN CallOps : CallOps[i] = op}

\* every init_ entry was emitted from the engine state init_lammps left,
\* every run_ entry from the state run_lammps left
EmittedFromItsState ==
    \A i \in DOMAIN yaml :
        /\ yaml[i].tag \in {"init_energy", "init_stress", "init_forces"}
              => yaml[i].from = "init"
        /\ yaml[i].tag \in {"run_energy", "run_stress", "run_forces"}
              => yaml[i].from = "run"

\* the fresh-init of the generator was made with newton_bond on
GenFlagOn ==
    cmds # << >> => cmds[1] = Cmd("variable newton_bond index", "on", 0)

\* C28: when generate_yaml_file has returned it has run the fresh-init
\* path once, with the flag on, and the short-run path once; what it has
\* emitted as init_energy, init_stress and init_forces comes from the
\* engine state before run_lammps, what it has emitted as run_energy,
\* run_stress and run_forces from the state after it.
C28_GenerateOnce ==
    test = GENERATE =>
        /\ EmittedFromItsState
        /\ GenFlagOn
        /\ GenEnded => /\ Cardinality(CallsOf("init")) = 1
                       /\ Cardinality(CallsOf("run")) = 1

\* C28 (amended): as C28 when init_lammps returns an engine; when a
\* prerequisite is missing the generator has called init_lammps once and
\* run_lammps not at all, and has emitted nothing.
C28_GenerateOnceIfMet ==
    test = GENERATE =>
        /\ EmittedFromItsState
        /\ GenFlagOn
        /\ Cardinality(CallsOf("init")) <= 1
        /\ Cardinality(CallsOf("run")) <= 1
        /\ GenEnded =>
              /\ Cardinality(CallsOf("init")) = 1
              /\ Cardinality(CallsOf("run")) =
                     IF Unmet(GENERATE) THEN 0 ELSE 1
              /\ Unmet(GENERATE) => yaml = << >> /\ cmds = << >>

\* the generator has returned with the six computed entries written
C28_Witness ==
    /\ GenSucceeded
    /\ Cardinality({i \in DOMAIN yaml : yaml[i].from = "init"
                        /\ yaml[i].tag = "init_forces"}) = 1
    /\ Cardinality({i \in DOMAIN yaml : yaml[i].from = "run"
                        /\ yaml[i].tag = "run_forces"}) = 1
    /\ Cardinality(CallsOf("run")) = 1

\* the tolerance of a comparison: its multiple of the epsilon of the config
Tol(c) == c.mult * test_config.epsilon

\* the comparisons TEST(AngleStyle, plain) makes of the quantity c
SerialSteps(c) ==
    {k \in DOMAIN PlainProgram :
        /\ IsCompareStep(PlainProgram[k])
        /\ PlainProgram[k].path = c.path
        /\ PlainProgram[k].qty = c.qty
        /\ PlainProgram[k].ref = c.ref}

\* C29: the omp test case compares the energies, which it compares at its
\* base tolerance, at 5 times the epsilon of the config, and every
\* comparison it makes is made at a tolerance no smaller than the one the
\* plain test case uses for the same quantity of the same path, for either
\* setting of newton_bond.
C29_ThreadedNoTighter ==
    (test \in DOMAIN TestCases /\ TestCases[test] = "omp") =>
        \A i \in DOMAIN compared :
            /\ compared[i].qty = "energy" =>
                   Tol(compared[i]) = 5 * test_config.epsilon
            /\ SerialSteps(compared[i]) # {}
            /\ \A k \in SerialSteps(compared[i]) :
                   Tol(compared[i]) >= Tol(PlainProgram[k])

\* omp has compared the stress after the flag-off init, which plain
\* compares at twice its base tolerance
C29_Witness ==
    /\ test \in DOMAIN TestCases /\ TestCases[test] = "omp"
    /\ \E i \in DOMAIN compared :
          /\ compared[i].path = "init" /\ ~compared[i].newton
          /\ compared[i].ref = "init_stress"
          /\ \E k \in SerialSteps(compared[i]) : PlainProgram[k].mult = 2
    /\ \E i \in DOMAIN compared : compared[i].ref = "run_energy"

\* C30: every file restart_lammps or data_lammps has read was on disk and
\* was written by the latest successful init_lammps of the engine instance
\* that reads it, with no cleanup_lammps since; in plain that init_lammps
\* is the one with newton_bond off.
C30_ReloadOwnArtifacts ==
    test \in DOMAIN TestCases =>
        \A i \in DOMAIN hist.loads :
            LET l == hist.loads[i]
            IN  /\ l.present
                /\ \E newton \in BOOLEAN :
                       /\ l.origin = {<< l.file, l.lmp, newton >>}
                       /\ TestCases[test] = "plain" => ~newton

\* plain has read the restart file and the data file
C30_Witness ==
    /\ test \in DOMAIN TestCases /\ TestCases[test] = "plain"
    /\ {hist.loads[i].file : i \in DOMAIN hist.loads} = {"restart", "data"}
    /\ \A i \in DOMAIN hist.loads : hist.loads[i].lmp = lmp
    /\ Cardinality(hist.created) = 2

\* a comparison is the next statement of the running test case
BeforeComparison ==
    /\ test \in DOMAIN TestCases /\ Running
    /\ IsCompareStep(Cur)
    /\ Valid(lmp)

\* C31: when a test case is about to compare a quantity, each pointer the
\* comparison dereferences (f and tag for forces, stress for the stress,
\* angle for the energy) was read from the engine after the latest
\* init_lammps, cleanup_lammps, restart_lammps or data_lammps; and when it
\* reads stress through angle without reading angle anew, angle was read
\* after the latest of them too.
C31_PointersFresh ==
    /\ BeforeComparison =>
          \A p \in Uses(Cur.qty) : hist.ptr[p] = hist.epoch
    /\ (test \in DOMAIN TestCases /\ At("fetch") /\ Valid(lmp)
          /\ "stress" \in Fetched(Cur.line)
          /\ "angle" \notin Fetched(Cur.line)) =>
          hist.ptr["angle"] = hist.epoch

\* plain is about to compare the forces after data_lammps, the third
\* change of the engine state since the flag-off init_lammps
C31_Witness ==
    /\ BeforeComparison /\ TestCases[test] = "plain"
    /\ Cur.path = "data" /\ Cur.qty = "forces"
    /\ hist.epoch = 5
    /\ hist.ptr["tag"] = 5

\* the value of the variable newton_bond after a command, "" when it is
\* not defined: an index variable that exists is not redefined, and clear
\* keeps the variables
NewtonAfter(c, v) ==
    CASE c.cmd = "variable newton_bond" /\ c.arg = "delete" -> ""
      [] c.cmd = "variable newton_bond index" -> IF v = "" THEN c.arg ELSE v
      [] OTHER -> v

\* the value of newton_bond the input file of seg is executed with
RECURSIVE NewtonAtFile(_, _)
NewtonAtFile(seg, v) ==
    IF seg = << >> \/ Head(seg).cmd = "file" THEN v
    ELSE NewtonAtFile(Tail(seg), NewtonAfter(Head(seg), v))

\* the commands issued since the latest clear, the clear included
SinceClear ==
    LET w == Where(cmds, "clear")
        last == CHOOSE i \in w : \A j \in w : j <= i
    IN  SubSeq(cmds, last, Len(cmds))

\* the reloads of the data file made so far
DataLoads == {i \in DOMAIN hist.loads : hist.loads[i].file = "data"}

\* C32: when data_lammps has run, its input file was executed with the
\* variable newton_bond set to on, whatever value the variable had before;
\* in plain the data file it read was written by the init_lammps with
\* newton_bond off.
C32_DataNewtonOn ==
    (test \in DOMAIN TestCases /\ JustDid("data") /\ eng.path = "data") =>
        /\ \A v \in {"on", "off", ""} : NewtonAtFile(SinceClear, v) = "on"
        /\ DataLoads # {}
        /\ TestCases[test] = "plain" =>
              \A i \in DataLoads :
                  \A o \in hist.loads[i].origin : ~o[3]

\* plain has reloaded the data file the flag-off init_lammps wrote
C32_Witness ==
    /\ test \in DOMAIN TestCases /\ TestCases[test] = "plain"
    /\ JustDid("data") /\ eng.path = "data"
    /\ \E i \in DataLoads : << "data", lmp, FALSE >> \in hist.loads[i].origin
    /\ NewtonAtFile(SinceClear, "off") = "on"

\* C33: generate_yaml_file creates its output file only after init_lammps
\* has returned an engine, and writes to it only once it is created; when
\* a prerequisite is missing it returns with the file neither created nor
\* written.
C33_NoFileWhenUnmet ==
    test = GENERATE =>
        /\ hist.outfile # "absent" =>
              /\ hist.created # {} /\ lmp # NULL
              /\ ~Unmet(GENERATE)
        /\ yaml # << >> => hist.outfile # "absent"
        /\ (GenEnded /\ Unmet(GENERATE)) =>
              hist.outfile = "absent" /\ yaml = << >>

\* the generator has returned from its null check; there is no output file
C33_Witness ==
    /\ GenEnded /\ Unmet(GENERATE)
    /\ hist.calls = << 225 >> /\ lmp = NULL
    /\ hist.outfile = "absent"

\* the generator has created the output file after a successful init_lammps
C33_WitnessMet ==
    /\ test = GENERATE /\ JustDid("open_writer")
    /\ hist.outfile = "created" /\ yaml = << >>

\* the force blocks generate_yaml_file has written
ForceBlocks == {i \in DOMAIN yaml : IsForceTag(yaml[i].tag)}

\* the particle ids on the lines of a block
LineIds(y) == [i \in DOMAIN y.text |-> DigVal(y.text[i][1])]

\* every particle id is on exactly one line of the block
EachIdOnce(y, natoms) ==
    \A id \in 1..natoms :
        Cardinality({i \in DOMAIN y.text : LineIds(y)[i] = id}) = 1

\* C34: each force block generate_yaml_file has written has natoms lines,
\* was written from slots of the force and tag arrays below nlocal only,
\* and, when all natoms atoms are local, so that their tags are a
\* permutation of 1..natoms, names every particle id on exactly one line.
C34_ForceBlockLocal ==
    (test = GENERATE /\ Valid(lmp)) =>
        \A b \in ForceBlocks :
            /\ Len(yaml[b].text) = eng.natoms
            /\ yaml[b].slots \subseteq 1..eng.nlocal
            /\ eng.nlocal = eng.natoms => EachIdOnce(yaml[b], eng.natoms)

\* the same without the restriction to local slots: natoms lines, and every
\* id once when all atoms are local
ForceBlockLines ==
    (test = GENERATE /\ Valid(lmp)) =>
        \A b \in ForceBlocks :
            /\ Len(yaml[b].text) = eng.natoms
            /\ eng.nlocal = eng.natoms =>
                  /\ EachIdOnce(yaml[b], eng.natoms)
                  /\ yaml[b].slots \subseteq 1..eng.nlocal

\* C35: read_yaml_file returns true exactly when parse_file has returned
\* zero; when parse_file fails the base name of the config is what it was
\* before the call, when it succeeds it is the base name of the reader.
C35_ReadResult ==
    rd.returned # "none" =>
        /\ rd.returned = "true" <=> rd.rc = 0
        /\ rd.returned \in {"true", "false"}
        /\ rd.rc # 0 => rd.basename = rd.before
        /\ rd.rc = 0 => rd.basename = rd.reader

\* a failed parse has left a base name the reader would have replaced
C35_Witness ==
    /\ rd.returned = "false" /\ rd.rc # 0
    /\ rd.before # rd.reader /\ rd.before # ""
    /\ rd.basename = rd.before

\* a successful parse has replaced the base name
C35_WitnessParsed ==
    /\ rd.returned = "true" /\ rd.rc = 0
    /\ rd.before # rd.reader /\ rd.basename = rd.reader

\* the engine of the running test case was started with a suffix: omp
\* passes "-sf", "omp"
WithSuffix == test # GENERATE /\ TestCases[test] = "omp"

\* C36: init_lammps asks has_style once for every prerequisite, in order;
\* for a prerequisite of category angle it asks for the style under the
\* suffix of the engine exactly when the engine has a suffix enabled, for
\* every other category always under the plain name; it returns NULL
\* exactly when one of the styles asked for is missing.
C36_PrerequisiteNames ==
    JustDid("init") =>
        LET pre == test_config.prerequisites
        IN  /\ Len(hist.probed) = Len(pre)
            /\ \A i \in DOMAIN pre :
                   /\ hist.probed[i][1] = pre[i][1]
                   /\ hist.probed[i][2] = pre[i][2]
                   /\ hist.probed[i][3] =
                         IF pre[i][1] = "angle" /\ WithSuffix
                         THEN "omp" ELSE ""
            /\ lmp = NULL <=>
                   \E i \in DOMAIN hist.probed :
                       hist.probed[i] \notin build.styles

\* omp: the suffixed angle style is missing, and the atom style after it
\* was asked for all the same, under its plain name
C36_Witness ==
    /\ JustDid("init") /\ WithSuffix
    /\ hist.probed = << << "angle", "harmonic", "omp" >>,
                        << "atom", "full", "" >> >>
    /\ << "angle", "harmonic", "omp" >> \notin build.styles
    /\ << "angle", "harmonic", "" >> \in build.styles
    /\ lmp = NULL

\* plain: the angle style was asked for under its plain name
C36_WitnessPlain ==
    /\ JustDid("init") /\ test # GENERATE /\ ~WithSuffix
    /\ hist.probed = << << "atom", "full", "" >>,
                        << "angle", "harmonic", "" >> >>
    /\ lmp # NULL

\* the date_generated entries generate_yaml_file has written
DateEntries == {i \in DOMAIN yaml : yaml[i].tag = "date_generated"}

\* C37: the date_generated value generate_yaml_file has written is the text
\* ctime returned without its trailing newline, every other character kept.
C37_DateComplete ==
    test = GENERATE =>
        \A i \in DateEntries :
            \E now \in Timestamps :
                yaml[i].text[1][1] \o << "\n" >> = now

\* what the code writes: the text without the newline and without the
\* character before it, the last digit of the year
DateLosesLastDigit ==
    test = GENERATE =>
        \A i \in DateEntries :
            \E now \in Timestamps :
                /\ yaml[i].text[1][1] = SubSeq(now, 1, Len(now) - 2)
                /\ now[Len(now)] = "\n"

====
